---- MODULE Spec2Model ----
(***************************************************************************)
(* Host authority of the multiplayer card game (MockGameServer in          *)
(* src/App.tsx, originally services/gameLogic.ts): the session state, the  *)
(* operations the host applies to it, the turn timer and the bot           *)
(* scheduling.  Array indices are 0-based as in the source; players[i] of  *)
(* the source is PlayerAt(ps, i) here.                                     *)
(***************************************************************************)
EXTENDS Integers, Sequences, FiniteSets, TLC

(***************************************************************************)
(* Bounds.  The deck, the deal, the room ceiling and the timer are the     *)
(* code's, scaled down: the code has 4 colors, face values 0..9, 2 copies  *)
(* of each colored card but the 0, 4 copies of each black card, deals 7    *)
(* cards, admits 15 players and counts 30 seconds.                         *)
(***************************************************************************)
NumColors == 2
\* highest face value of a number card (9 in the code)
MaxValue == 1
\* copies of each number 1..MaxValue and of each action card of a color (2 in
\* the code)
PairCopies == 1
\* copies of wild and of wild4 (4 in the code)
WildCopies == 1
\* cards dealt to each player (7 in the code)
DealCount == 2
\* room ceiling (15 in the code)
MaxPlayers == 3
\* seconds of a turn (30 in the code)
TurnSeconds == 1
\* peer connections that ever reach the host
MaxConns == 2
\* player ids uuidv4 hands out besides 'host-id'
MaxIds == 2
\* calls of generateDeck (rounds dealt)
MaxDeals == 2
\* operations of a round (plays, draws, timeouts, Uno calls) handled
MaxTurns == 4
\* connection events the host handles (join requests, exits, closes)
MaxNetEvents == 2
\* calls made in a phase whose view does not offer them (start or bot outside
\* the lobby, next round outside a round end, play, draw or Uno outside a
\* round, exit of a player who has no connection)
MaxStrays == 1
\* values Math.random() takes, as k / RandomLevels
RandomLevels == 2

(***************************************************************************)
(* Cards (src/types.ts Card).  A card without a value has value NoValue.   *)
(***************************************************************************)
COLORS == <<"red", "yellow", "green", "blue">>

NoValue == -1

DeckColors == SubSeq(COLORS, 1, NumColors)

RECURSIVE Flatten(_)
Flatten(ss) == IF ss = <<>> THEN <<>> ELSE Head(ss) \o Flatten(Tail(ss))

Face(color, type, value) == [color |-> color, type |-> type, value |-> value]

\* the cards generateDeck pushes for one color, in push order
ColorFaces(color) ==
    <<Face(color, "number", 0)>>
    \o Flatten([i \in 1..MaxValue |->
                  [c \in 1..PairCopies |-> Face(color, "number", i)]])
    \o Flatten([t \in 1..3 |->
                  [c \in 1..PairCopies |->
                     Face(color, <<"skip", "reverse", "draw2">>[t], NoValue)]])

\* the whole deck in push order, before the shuffle
DeckFaces ==
    Flatten([c \in 1..Len(DeckColors) |-> ColorFaces(DeckColors[c])])
    \o Flatten([i \in 1..WildCopies |->
                  <<Face("black", "wild", NoValue), Face("black", "wild4", NoValue)>>])

DeckSize == Len(DeckFaces)

\* Math.random() of the k-th call of one shuffle, as a numerator over
\* RandomLevels; seed r picks the stream.
RandomSeeds == 0..(RandomLevels - 1)

Swap(d, a, b) == [d EXCEPT ![a] = d[b], ![b] = d[a]]

\* Fisher-Yates, i from length-1 down to 1 (0-based), j = floor(random * (i+1))
RECURSIVE ShuffleFrom(_, _, _)
ShuffleFrom(d, i, r) ==
    IF i <= 0 THEN d
    ELSE LET j == (r * (i + 1)) \div RandomLevels
         IN  ShuffleFrom(Swap(d, i + 1, j + 1), i - 1, r)

shuffleDeck(deck, r) == ShuffleFrom(deck, Len(deck) - 1, r)

\* uuidv4 gives every card of every generated deck a fresh id: the g-th deck
\* holds the ids (g-1)*DeckSize+1 .. g*DeckSize.
NewDeck(g) ==
    [k \in 1..DeckSize |->
        [id    |-> (g - 1) * DeckSize + k,
         color |-> DeckFaces[k].color,
         type  |-> DeckFaces[k].type,
         value |-> DeckFaces[k].value]]

generateDeck(g, r) == shuffleDeck(NewDeck(g), r)

\* topCard is NoCard when the discard pile is empty; the source then throws on
\* topCard.type unless one of the first two tests already returned true.
NoCard == [id |-> 0, color |-> "none", type |-> "none", value |-> NoValue]

\* variant: two number cards match whatever their values
isValidMoveAnyNumber(card, topCard, currentColor) ==
    \/ card.color = "black"
    \/ card.color = currentColor
    \/ /\ topCard # NoCard
       /\ card.type = topCard.type

isValidMove(card, topCard, currentColor) ==
    \/ card.color = "black"
    \/ card.color = currentColor
    \/ /\ topCard # NoCard
       /\ card.type = topCard.type
       /\ (card.type = "number" => card.value = topCard.value)

CardScore(card) ==
    IF card.type \in {"wild", "wild4"} THEN 50
    ELSE IF card.type \in {"skip", "reverse", "draw2"} THEN 20
    ELSE IF card.value = NoValue THEN 0 ELSE card.value

RECURSIVE calculateHandScore(_)
calculateHandScore(hand) ==
    IF hand = <<>> THEN 0
    ELSE CardScore(Head(hand)) + calculateHandScore(Tail(hand))

(***************************************************************************)
(* Session state (src/types.ts GameState, Player) and the host's private   *)
(* fields.  A handler is an operator from the host record to the host      *)
(* record; the record's fields are the variables below.  name, avatar,     *)
(* roomId, chatMessages and lastReaction carry no game logic and are left  *)
(* out; of log only the number of entries a step pushes is kept.           *)
(***************************************************************************)
VARIABLES
    players,            \* state.players
    deck,               \* state.deck, top = last element
    discardPile,        \* state.discardPile, top = last element
    currentPlayerIndex, \* state.currentPlayerIndex, 0-based
    direction,          \* state.direction
    status,             \* state.status
    winner,             \* state.winner, as the id of the player it refers to
    currentColor,       \* state.currentColor
    turnTimer,          \* state.turnTimer
    mode,               \* state.mode
    timerInterval,      \* TRUE while the setInterval of startTurnTimer is armed
    botTurnTimeout,     \* id of the bot a pending setTimeout will play, or NoPlayer
    connections,        \* the Map PlayerID -> Connection, in insertion order
    closedConns,        \* connections that are closed
    nextId,             \* the next player id uuidv4 returns
    deckGen,            \* decks generated so far
    turns,              \* round operations handled so far
    hung,               \* TRUE once a handler entered a loop it never leaves
    lastResponse,       \* the JOIN_RESPONSE the last step sent, or NoResponse
    lastOp,             \* the handler of the last step
    strays,             \* calls made so far in a phase whose view does not offer them
    netEvents,          \* connection events handled so far
    joinedConns,        \* connections whose JOIN_REQUEST the host has handled
    lastBroadcast,      \* what notify() sent last in the last step, or NoBroadcast
    logged,             \* entries the last step pushed on state.log
    tornDown,           \* TRUE once cleanup() has run
    wire,               \* per replicated connection, the messages sent and not yet received
    sent,               \* broadcasts made so far on replicated connections
    remote              \* per connection, the RemoteGameController at its far end

vars == <<players, deck, discardPile, currentPlayerIndex, direction, status,
          winner, currentColor, turnTimer, mode, timerInterval, botTurnTimeout,
          connections, closedConns, nextId, deckGen, turns, hung, lastResponse,
          lastOp, strays, netEvents, joinedConns, lastBroadcast, logged,
          tornDown, wire, sent, remote>>

HostId == 0

NoPlayer == -1

Conns == 1..MaxConns

NoConn == 0

PlayerIds == 0..MaxIds

NoResponse == [conn |-> NoConn, success |-> FALSE, playerId |-> NoPlayer,
               players |-> <<>>, status |-> "none"]

\* n counts the calls of notify() in the step; the other fields are read from
\* the state the last of them handed to listeners and peers
NoBroadcast == [n |-> 0, currentPlayerIndex |-> 0, status |-> "none",
                winner |-> NoPlayer]

\* The host record a handler starts from: the current state, with nothing
\* sent and no handler named yet.  A handler that returns without any effect
\* leaves lastOp at "none".
St == [players |-> players, deck |-> deck, discardPile |-> discardPile,
       currentPlayerIndex |-> currentPlayerIndex, direction |-> direction,
       status |-> status, winner |-> winner, currentColor |-> currentColor,
       turnTimer |-> turnTimer, mode |-> mode, timerInterval |-> timerInterval,
       botTurnTimeout |-> botTurnTimeout, connections |-> connections,
       closedConns |-> closedConns, nextId |-> nextId, deckGen |-> deckGen,
       turns |-> turns, hung |-> hung, lastResponse |-> NoResponse,
       lastOp |-> "none", strays |-> strays, netEvents |-> netEvents,
       joinedConns |-> joinedConns, lastBroadcast |-> NoBroadcast, logged |-> 0,
       tornDown |-> tornDown, wire |-> wire, sent |-> sent, remote |-> remote]

\* the next state is the host record s
Commit(s) ==
    /\ players' = s.players
    /\ deck' = s.deck
    /\ discardPile' = s.discardPile
    /\ currentPlayerIndex' = s.currentPlayerIndex
    /\ direction' = s.direction
    /\ status' = s.status
    /\ winner' = s.winner
    /\ currentColor' = s.currentColor
    /\ turnTimer' = s.turnTimer
    /\ mode' = s.mode
    /\ timerInterval' = s.timerInterval
    /\ botTurnTimeout' = s.botTurnTimeout
    /\ connections' = s.connections
    /\ closedConns' = s.closedConns
    /\ nextId' = s.nextId
    /\ deckGen' = s.deckGen
    /\ turns' = s.turns
    /\ hung' = s.hung
    /\ lastResponse' = s.lastResponse
    /\ lastOp' = s.lastOp
    /\ strays' = s.strays
    /\ netEvents' = s.netEvents
    /\ joinedConns' = s.joinedConns
    /\ lastBroadcast' = s.lastBroadcast
    /\ logged' = s.logged
    /\ tornDown' = s.tornDown
    /\ wire' = s.wire
    /\ sent' = s.sent
    /\ remote' = s.remote

\* the initial state is the host record s
Commit0(s) ==
    /\ players = s.players
    /\ deck = s.deck
    /\ discardPile = s.discardPile
    /\ currentPlayerIndex = s.currentPlayerIndex
    /\ direction = s.direction
    /\ status = s.status
    /\ winner = s.winner
    /\ currentColor = s.currentColor
    /\ turnTimer = s.turnTimer
    /\ mode = s.mode
    /\ timerInterval = s.timerInterval
    /\ botTurnTimeout = s.botTurnTimeout
    /\ connections = s.connections
    /\ closedConns = s.closedConns
    /\ nextId = s.nextId
    /\ deckGen = s.deckGen
    /\ turns = s.turns
    /\ hung = s.hung
    /\ lastResponse = s.lastResponse
    /\ lastOp = s.lastOp
    /\ strays = s.strays
    /\ netEvents = s.netEvents
    /\ joinedConns = s.joinedConns
    /\ lastBroadcast = s.lastBroadcast
    /\ logged = s.logged
    /\ tornDown = s.tornDown
    /\ wire = s.wire
    /\ sent = s.sent
    /\ remote = s.remote

\* the Session State of the host record s
SessionOf(s) ==
    <<s.players, s.deck, s.discardPile, s.currentPlayerIndex, s.direction,
      s.status, s.winner, s.currentColor, s.turnTimer, s.mode>>

\* lastState of a RemoteGameController that has received no state yet
NoState == <<>>

\* a RemoteGameController after its constructor (lines 1358-1362): no
\* connection, no state, joinGame not called
NewProxy ==
    [peerOpen |-> FALSE, conn |-> "null", requestId |-> 0, timeoutTimer |-> FALSE,
     peerErrorListener |-> FALSE, promise |-> "none", playerId |-> NoPlayer,
     reason |-> "", lastState |-> NoState, heldSeq |-> 0]

\* a message from the host to a peer; seq is the number of the broadcast
\* whose state it carries
JoinResponseMessage(requestId, success, playerId, state, error, seq) ==
    [type |-> "JOIN_RESPONSE", requestId |-> requestId, success |-> success,
     playerId |-> playerId, state |-> state, error |-> error, seq |-> seq]

StateUpdateMessage(state, seq) ==
    [type |-> "STATE_UPDATE", requestId |-> 0, success |-> FALSE,
     playerId |-> NoPlayer, state |-> state, error |-> "", seq |-> seq]

NewPlayer(id, isHost, isBot, isSpectator) ==
    [id |-> id, hand |-> <<>>, isHost |-> isHost, score |-> 0,
     isEliminated |-> FALSE, hasCalledUno |-> FALSE, isBot |-> isBot,
     isSpectator |-> isSpectator]

\* players[i] of the source
PlayerAt(ps, i) == ps[i + 1]

InRange(ps, i) == i >= 0 /\ i < Len(ps)

Active(p) == ~p.isEliminated /\ ~p.isSpectator

\* indices (0-based) of the players filter(!isEliminated && !isSpectator) keeps
ActiveIndices(ps) == {i \in 0..(Len(ps) - 1) : Active(PlayerAt(ps, i))}

Min(S) == CHOOSE x \in S : \A y \in S : x <= y

\* players.findIndex(p => p.id === pid)
findIndex(ps, pid) ==
    LET hits == {i \in 0..(Len(ps) - 1) : PlayerAt(ps, i).id = pid}
    IN  IF hits = {} THEN -1 ELSE Min(hits)

Top(pile) == IF pile = <<>> THEN NoCard ELSE pile[Len(pile)]

Pop(pile) == SubSeq(pile, 1, Len(pile) - 1)

\* The host record after new MockGameServer(hostName, hostAvatar, maxPlayers, m)
InitialState(m) ==
    [players |-> <<NewPlayer(HostId, TRUE, FALSE, FALSE)>>, deck |-> <<>>,
     discardPile |-> <<>>, currentPlayerIndex |-> 0, direction |-> 1,
     status |-> "LOBBY", winner |-> NoPlayer, currentColor |-> "black",
     turnTimer |-> TurnSeconds, mode |-> m, timerInterval |-> FALSE,
     botTurnTimeout |-> NoPlayer, connections |-> <<>>, closedConns |-> {},
     nextId |-> 1, deckGen |-> 0, turns |-> 0, hung |-> FALSE,
     lastResponse |-> NoResponse, lastOp |-> "new", strays |-> 0, netEvents |-> 0,
     joinedConns |-> {}, lastBroadcast |-> NoBroadcast, logged |-> 1,
     tornDown |-> FALSE, wire |-> <<>>, sent |-> 0,
     remote |-> [c \in Conns |-> NewProxy]]

(***************************************************************************)
(* Turn order, timer, draws and round resolution.                          *)
(***************************************************************************)
\* notify(): listeners and open connections receive the state as it is now; a
\* handler caught in a loop never gets there
notify(s) ==
    IF s.hung THEN s
    ELSE LET replicated == DOMAIN s.wire # {}
             seq == IF replicated THEN s.sent + 1 ELSE s.sent
             update == StateUpdateMessage(SessionOf(s), seq)
             Entries(c) == {k \in 1..Len(s.connections) : s.connections[k].conn = c}
         IN  [s EXCEPT
                !.lastBroadcast =
                    [n |-> s.lastBroadcast.n + 1,
                     currentPlayerIndex |-> s.currentPlayerIndex,
                     status |-> s.status, winner |-> s.winner],
                !.sent = seq,
                !.wire = [c \in DOMAIN s.wire |->
                            IF c \in s.closedConns THEN s.wire[c]
                            ELSE s.wire[c] \o
                                 [k \in 1..Cardinality(Entries(c)) |-> update]]]

\* this.state.log.push(...)
logPush(s) == IF s.hung THEN s ELSE [s EXCEPT !.logged = s.logged + 1]

SetHand(ps, i, hand) == [ps EXCEPT ![i + 1].hand = hand]

\* The loop of getNextPlayerIndex never ends when no seat is active: count
\* stays 0 and the guard count > len * 2 is never met.
NextSeatDiverges(s) == ActiveIndices(s.players) = {}

RECURSIVE NextSeatWalk(_, _, _, _)
NextSeatWalk(s, nextIndex, count, offset) ==
    IF count >= offset THEN nextIndex
    ELSE LET len == Len(s.players)
             n   == (nextIndex + s.direction + len) % len
             c   == IF Active(PlayerAt(s.players, n)) THEN count + 1 ELSE count
         IN  IF c > len * 2 THEN n ELSE NextSeatWalk(s, n, c, offset)

\* variant: every seat counts, active or not
getNextPlayerIndexAnySeat(s, offset) ==
    (s.currentPlayerIndex + offset * s.direction + 2 * Len(s.players))
        % Len(s.players)

getNextPlayerIndex(s, offset) ==
    NextSeatWalk(s, s.currentPlayerIndex, 0, offset)

startTurnTimer(s) ==
    [s EXCEPT !.timerInterval = TRUE, !.turnTimer = TurnSeconds]

advanceTurn(s, offset) ==
    LET s1 == startTurnTimer(s)
    IN  IF NextSeatDiverges(s1) THEN [s1 EXCEPT !.hung = TRUE]
        ELSE [s1 EXCEPT !.currentPlayerIndex = getNextPlayerIndex(s1, offset)]

RECURSIVE drawCards(_, _, _, _)
drawCards(s, playerIndex, count, r) ==
    IF count = 0 THEN s
    ELSE IF Len(s.deck) = 0 /\ Len(s.discardPile) = 0 THEN s
    ELSE LET s1 == IF Len(s.deck) = 0
                   THEN [s EXCEPT !.deck = shuffleDeck(Pop(s.discardPile), r),
                                  !.discardPile = <<Top(s.discardPile)>>]
                   ELSE s
             s2 == IF Len(s1.deck) > 0
                   THEN [s1 EXCEPT
                           !.players = SetHand(s1.players, playerIndex,
                               Append(PlayerAt(s1.players, playerIndex).hand,
                                      Top(s1.deck))),
                           !.deck = Pop(s1.deck)]
                   ELSE s1
         IN  drawCards(s2, playerIndex, count - 1, r)

checkBotTurn(s) ==
    LET s1 == [s EXCEPT !.botTurnTimeout = NoPlayer]
    IN  IF s.hung THEN s
        ELSE IF s1.status # "PLAYING" THEN s1
        ELSE IF /\ InRange(s1.players, s1.currentPlayerIndex)
                /\ PlayerAt(s1.players, s1.currentPlayerIndex).isBot
                /\ Active(PlayerAt(s1.players, s1.currentPlayerIndex))
        THEN [s1 EXCEPT !.botTurnTimeout =
                            PlayerAt(s1.players, s1.currentPlayerIndex).id]
        ELSE s1

\* variant: the ascending sort, which puts a lowest scorer first
HighestScorerAscending(ps) ==
    LET act == ActiveIndices(ps)
        low == {i \in act : \A j \in act : PlayerAt(ps, i).score <= PlayerAt(ps, j).score}
    IN  Min(low)

\* [...activePlayers].sort((a, b) => b.score - a.score)[0]: the sort is stable,
\* so the first active player in roster order among those of highest score
HighestScorer(ps) ==
    LET act == ActiveIndices(ps)
        top == {i \in act : \A j \in act : PlayerAt(ps, j).score <= PlayerAt(ps, i).score}
    IN  Min(top)

ScoreRound(ps, winnerIndex) ==
    [k \in 1..Len(ps) |->
        IF ~Active(ps[k]) THEN ps[k]
        ELSE IF k - 1 = winnerIndex THEN [ps[k] EXCEPT !.score = 0]
        ELSE [ps[k] EXCEPT !.score = calculateHandScore(ps[k].hand)]]

\* variant: every active player with points is eliminated
EliminateScorers(ps) ==
    [k \in 1..Len(ps) |->
        IF Active(ps[k]) /\ ps[k].score > 0
        THEN [ps[k] EXCEPT !.isEliminated = TRUE]
        ELSE ps[k]]

EliminateHighest(ps) ==
    IF ActiveIndices(ps) # {} /\ PlayerAt(ps, HighestScorer(ps)).score > 0
    THEN [ps EXCEPT ![HighestScorer(ps) + 1].isEliminated = TRUE]
    ELSE ps

handleRoundWin(s, winnerIndex) ==
    LET s1 == logPush([s EXCEPT !.timerInterval = FALSE])
    IN  IF s1.mode = "QUICK"
        THEN notify([s1 EXCEPT !.status = "GAME_OVER",
                               !.winner = PlayerAt(s1.players, winnerIndex).id])
        ELSE LET sc  == ScoreRound(s1.players, winnerIndex)
                 ps  == EliminateHighest(sc)
                 rem == ActiveIndices(ps)
                 s2  == IF ps # sc THEN logPush(s1) ELSE s1
             IN  IF Cardinality(rem) = 1
                 THEN notify([s2 EXCEPT !.players = ps, !.status = "GAME_OVER",
                                        !.winner = PlayerAt(ps, Min(rem)).id])
                 ELSE notify([s2 EXCEPT !.players = ps, !.status = "ROUND_OVER"])

(***************************************************************************)
(* In-round operations.                                                    *)
(***************************************************************************)
NoColor == "undefined"

RemoveAt(seq, k) == SubSeq(seq, 1, k - 1) \o SubSeq(seq, k + 1, Len(seq))

\* hand.findIndex(c => c.id === cardId), 1-based here, 0 when absent
CardIndex(hand, cardId) ==
    LET hits == {k \in 1..Len(hand) : hand[k].id = cardId}
    IN  IF hits = {} THEN 0 ELSE Min(hits)

\* variant: the valid-move test is left out
PlayAcceptedAnyCard(s, playerId, cardId) ==
    /\ findIndex(s.players, playerId) = s.currentPlayerIndex
    /\ findIndex(s.players, playerId) >= 0
    /\ CardIndex(PlayerAt(s.players, s.currentPlayerIndex).hand, cardId) > 0

\* playCard passes every guard: the player holds the turn, owns the card and
\* the card is a valid move
PlayAccepted(s, playerId, cardId) ==
    /\ findIndex(s.players, playerId) = s.currentPlayerIndex
    /\ findIndex(s.players, playerId) >= 0
    /\ CardIndex(PlayerAt(s.players, s.currentPlayerIndex).hand, cardId) > 0
    /\ LET hand == PlayerAt(s.players, s.currentPlayerIndex).hand
       IN  isValidMove(hand[CardIndex(hand, cardId)], Top(s.discardPile),
                       s.currentColor)

\* variant: the card is pushed on the discard pile and stays in the hand
PlayMoveCardKeepsCard(s, playerIndex, cardId, r) ==
    LET hand == PlayerAt(s.players, playerIndex).hand
        k    == CardIndex(hand, cardId)
    IN  [s EXCEPT !.discardPile = Append(s.discardPile, hand[k])]

\* lines 1165-1172: the card moves to the discard pile, then the forgotten-Uno
\* penalty and the reset of hasCalledUno
PlayMoveCard(s, playerIndex, cardId, r) ==
    LET hand == PlayerAt(s.players, playerIndex).hand
        k    == CardIndex(hand, cardId)
        s1   == [s EXCEPT !.players = SetHand(s.players, playerIndex, RemoveAt(hand, k)),
                          !.discardPile = Append(s.discardPile, hand[k])]
        p1   == PlayerAt(s1.players, playerIndex)
        s2   == IF Len(p1.hand) = 1 /\ ~p1.hasCalledUno
                THEN drawCards(logPush(s1), playerIndex, 1, r)
                ELSE s1
    IN  IF Len(PlayerAt(s2.players, playerIndex).hand) > 1
        THEN [s2 EXCEPT !.players[playerIndex + 1].hasCalledUno = FALSE]
        ELSE s2

\* lines 1174-1176
PlayColor(s, card, wildColor) ==
    [s EXCEPT !.currentColor =
        IF card.color = "black" /\ wildColor # NoColor THEN wildColor
        ELSE card.color]

\* variant: no two-player shortcut for reverse
NextOffsetNoShortcut(s, card) ==
    IF card.type \in {"skip", "draw2", "wild4"} THEN 2 ELSE 1

\* lines 1178-1191: nextOffset of the played card
NextOffset(s, card) ==
    IF card.type = "reverse"
    THEN IF Cardinality(ActiveIndices(s.players)) = 2 THEN 2 ELSE 1
    ELSE IF card.type \in {"skip", "draw2", "wild4"} THEN 2
    ELSE 1

\* lines 1178-1191: the side effect of the played card on direction and hands
PlaySideEffect(s, card, r) ==
    IF card.type = "reverse"
    THEN IF Cardinality(ActiveIndices(s.players)) = 2 THEN s
         ELSE [s EXCEPT !.direction = -s.direction]
    ELSE IF card.type \in {"draw2", "wild4"}
    THEN IF NextSeatDiverges(s) THEN [s EXCEPT !.hung = TRUE]
         ELSE drawCards(s, getNextPlayerIndex(s, 1),
                        IF card.type = "draw2" THEN 2 ELSE 4, r)
    ELSE s

\* variant: the turn advances before the empty hand is looked at
PlayFinishAdvancesFirst(s, playerIndex, card) ==
    IF s.hung THEN s
    ELSE IF Len(PlayerAt(s.players, playerIndex).hand) = 0
    THEN handleRoundWin(advanceTurn(s, NextOffset(s, card)), playerIndex)
    ELSE checkBotTurn(notify(advanceTurn(s, NextOffset(s, card))))

\* lines 1193-1200
PlayFinish(s, playerIndex, card) ==
    IF s.hung THEN s
    ELSE IF Len(PlayerAt(s.players, playerIndex).hand) = 0
    THEN handleRoundWin(s, playerIndex)
    ELSE checkBotTurn(notify(advanceTurn(s, NextOffset(s, card))))

playCard(s, playerId, cardId, wildColor, r) ==
    IF ~PlayAccepted(s, playerId, cardId) THEN s
    ELSE LET playerIndex == s.currentPlayerIndex
             hand == PlayerAt(s.players, playerIndex).hand
             card == hand[CardIndex(hand, cardId)]
             s1   == [s EXCEPT !.turns = s.turns + 1, !.lastOp = "playCard"]
             s2   == PlayMoveCard(s1, playerIndex, cardId, r)
             s3   == PlaySideEffect(PlayColor(s2, card, wildColor), card, r)
         IN  PlayFinish(s3, playerIndex, card)

drawCard(s, playerId, r) ==
    IF findIndex(s.players, playerId) # s.currentPlayerIndex
       \/ findIndex(s.players, playerId) < 0
    THEN s
    ELSE LET s1 == [s EXCEPT !.turns = s.turns + 1, !.lastOp = "drawCard"]
         IN  checkBotTurn(notify(advanceTurn(
                 logPush(drawCards(s1, s.currentPlayerIndex, 1, r)), 1)))

callUno(s, playerId) ==
    LET i == findIndex(s.players, playerId)
    IN  IF i >= 0 /\ Len(PlayerAt(s.players, i).hand) <= 2
        THEN notify(logPush([s EXCEPT !.players[i + 1].hasCalledUno = TRUE,
                                      !.turns = s.turns + 1,
                                      !.lastOp = "callUno"]))
        ELSE s

(***************************************************************************)
(* Dealing: startGame and nextRound.                                       *)
(***************************************************************************)
Take(seq, n) == SubSeq(seq, 1, IF n < Len(seq) THEN n ELSE Len(seq))

Drop(seq, n) == SubSeq(seq, (IF n < Len(seq) THEN n ELSE Len(seq)) + 1, Len(seq))

\* startGame's players.forEach, from the k-th player on: a non-spectator takes
\* deck.splice(0, 7) and is reset, a spectator is marked eliminated
RECURSIVE StartDeal(_, _, _)
StartDeal(ps, dk, k) ==
    IF k > Len(ps) THEN [players |-> ps, deck |-> dk]
    ELSE IF ~ps[k].isSpectator
    THEN StartDeal([ps EXCEPT ![k].hand = Take(dk, DealCount),
                              ![k].isEliminated = FALSE,
                              ![k].score = 0,
                              ![k].hasCalledUno = FALSE],
                   Drop(dk, DealCount), k + 1)
    ELSE StartDeal([ps EXCEPT ![k].hand = <<>>, ![k].isEliminated = TRUE],
                   dk, k + 1)

\* nextRound's activePlayers.forEach, from the k-th player on
RECURSIVE RoundDeal(_, _, _)
RoundDeal(ps, dk, k) ==
    IF k > Len(ps) THEN [players |-> ps, deck |-> dk]
    ELSE IF Active(ps[k])
    THEN RoundDeal([ps EXCEPT ![k].hand = Take(dk, DealCount),
                              ![k].hasCalledUno = FALSE,
                              ![k].score = 0],
                   Drop(dk, DealCount), k + 1)
    ELSE RoundDeal(ps, dk, k + 1)

\* The opening-card loop: firstCard = deck.pop(); while it is black it is put
\* back at the front and the next one is popped.  On an empty deck
\* firstCard.color throws; on a deck of black cards only the loop never ends.
OpeningOutcome(dk) ==
    IF dk = <<>> THEN "throw"
    ELSE IF \A k \in 1..Len(dk) : dk[k].color = "black" THEN "hang"
    ELSE "ok"

RECURSIVE RotateBlack(_)
RotateBlack(dk) ==
    IF Top(dk).color = "black" THEN RotateBlack(<<Top(dk)>> \o Pop(dk)) ELSE dk

\* lines 1069-1076 and 1333-1340, on a deck whose OpeningOutcome is "ok"
OpenRound(s) ==
    LET dk == RotateBlack(s.deck)
    IN  [s EXCEPT !.deck = Pop(dk), !.discardPile = <<Top(dk)>>,
                  !.currentColor = Top(dk).color, !.status = "PLAYING"]

\* variant: the turn starts on seat 0 whoever sits there
FirstSeatAlwaysZero(ps) == 0

\* lines 1077-1081: the first seat that is no spectator; the loop never ends
\* when every player is a spectator
FirstSeat(ps) == Min({i \in 0..(Len(ps) - 1) : ~PlayerAt(ps, i).isSpectator})

\* startGame with the deck generateDeck returned
startGameWith(s, dk) ==
    IF Len(s.players) < 2 THEN s
    ELSE LET d  == StartDeal(s.players, dk, 1)
             s1 == [s EXCEPT !.deckGen = s.deckGen + 1,
                             !.players = d.players, !.deck = d.deck,
                             !.lastOp = "startGame"]
         IN  IF OpeningOutcome(s1.deck) = "throw" THEN s1
             ELSE IF OpeningOutcome(s1.deck) = "hang" THEN [s1 EXCEPT !.hung = TRUE]
             ELSE IF \A k \in 1..Len(s1.players) : s1.players[k].isSpectator
             THEN [OpenRound(s1) EXCEPT !.currentPlayerIndex = 0, !.hung = TRUE]
             ELSE checkBotTurn(notify(startTurnTimer(logPush(
                     [OpenRound(s1) EXCEPT
                         !.currentPlayerIndex = FirstSeat(s1.players)]))))

startGame(s, r) == startGameWith(s, generateDeck(s.deckGen + 1, r))

\* nextRound with the deck generateDeck returned
nextRoundWith(s, dk) ==
    IF s.status = "GAME_OVER" THEN s
    ELSE LET s1  == [s EXCEPT !.deckGen = s.deckGen + 1,
                              !.deck = dk,
                              !.discardPile = <<>>, !.lastOp = "nextRound"]
             act == ActiveIndices(s1.players)
             d   == RoundDeal(s1.players, s1.deck, 1)
             s2  == [s1 EXCEPT !.players = d.players, !.deck = d.deck]
         IN  IF Cardinality(act) < 2
             THEN notify([s1 EXCEPT !.status = "GAME_OVER",
                                    !.winner = IF Cardinality(act) = 1
                                               THEN PlayerAt(s1.players, Min(act)).id
                                               ELSE s1.winner])
             ELSE IF OpeningOutcome(s2.deck) = "throw" THEN s2
             ELSE IF OpeningOutcome(s2.deck) = "hang" THEN [s2 EXCEPT !.hung = TRUE]
             ELSE checkBotTurn(notify(startTurnTimer(logPush(
                     [OpenRound(s2) EXCEPT !.currentPlayerIndex = Min(act)]))))

nextRound(s, r) == nextRoundWith(s, generateDeck(s.deckGen + 1, r))

(***************************************************************************)
(* Timer and bot.                                                          *)
(***************************************************************************)
\* lastOp names the handler the event entered
Entered(s, op) == IF s.lastOp = "none" THEN s ELSE [s EXCEPT !.lastOp = op]

\* variant: the timeout leaves a holder who is active alone
handleTimeoutSparesActive(s, r) ==
    IF ~Active(PlayerAt(s.players, s.currentPlayerIndex))
    THEN checkBotTurn(notify(advanceTurn([s EXCEPT !.turns = s.turns + 1], 1)))
    ELSE s

handleTimeout(s, r) ==
    IF ~Active(PlayerAt(s.players, s.currentPlayerIndex))
    THEN checkBotTurn(notify(advanceTurn([s EXCEPT !.turns = s.turns + 1], 1)))
    ELSE drawCard(s, PlayerAt(s.players, s.currentPlayerIndex).id, r)

\* one firing of the setInterval callback of startTurnTimer
timerTick(s, r) ==
    IF s.status # "PLAYING" THEN [s EXCEPT !.timerInterval = FALSE, !.lastOp = "tick"]
    ELSE LET s1 == [s EXCEPT !.turnTimer = s.turnTimer - 1, !.lastOp = "tick"]
         IN  IF s1.turnTimer <= 0 THEN Entered(handleTimeout(s1, r), "timeout")
             ELSE notify(s1)

BotPriority(card) ==
    (IF card.type = "wild4" THEN 10 ELSE 0)
    + (IF card.type = "draw2" THEN 5 ELSE 0)
    + (IF card.type \in {"skip", "reverse"} THEN 3 ELSE 0)

\* variant: the first valid card of the hand, whatever its priority
BotChoiceFirstValid(s, hand) ==
    LET valid == {k \in 1..Len(hand) :
                    isValidMove(hand[k], Top(s.discardPile), s.currentColor)}
    IN  IF valid = {} THEN 0 ELSE Min(valid)

\* validMoves.sort(...)[0]: the sort is stable, so the first valid card of the
\* hand among those of highest priority; 0 when the hand has no valid move
BotChoice(s, hand) ==
    LET valid == {k \in 1..Len(hand) :
                    isValidMove(hand[k], Top(s.discardPile), s.currentColor)}
        best  == {k \in valid : \A j \in valid :
                    BotPriority(hand[j]) <= BotPriority(hand[k])}
    IN  IF valid = {} THEN 0 ELSE Min(best)

\* bot.hand.filter(c => isValidMove(c, topCard, currentColor)) throws on
\* topCard.type when the discard pile is empty and a card of the hand is
\* neither black nor of the current color
BotFilterThrows(s, hand) ==
    /\ s.discardPile = <<>>
    /\ \E k \in 1..Len(hand) : hand[k].color \notin {"black", s.currentColor}

BotColorKeys == <<"red", "blue", "green", "yellow">>

ColorCount(hand, color) == Cardinality({k \in 1..Len(hand) : hand[k].color = color})

\* Object.keys(counts).reduce((a, b) => counts[a] > counts[b] ? a : b)
RECURSIVE BotColorFrom(_, _, _)
BotColorFrom(hand, a, k) ==
    IF k > Len(BotColorKeys) THEN a
    ELSE BotColorFrom(hand,
            IF ColorCount(hand, a) > ColorCount(hand, BotColorKeys[k])
            THEN a ELSE BotColorKeys[k],
            k + 1)

\* variant: the bot plays without calling Uno
executeBotTurnSilent(s, botId, r) ==
    LET i    == findIndex(s.players, botId)
        hand == IF i < 0 THEN <<>> ELSE PlayerAt(s.players, i).hand
        k    == BotChoice(s, hand)
        s0   == [s EXCEPT !.botTurnTimeout = NoPlayer, !.lastOp = "botTurn"]
    IN  IF i < 0 \/ BotFilterThrows(s, hand) THEN s0
        ELSE IF k = 0 THEN Entered(drawCard(s0, botId, r), "botTurn")
        ELSE Entered(
               playCard(s0, botId, hand[k].id,
                        IF hand[k].color = "black"
                        THEN BotColorFrom(hand, BotColorKeys[1], 2)
                        ELSE NoColor,
                        r),
               "botTurn")

\* the callback of the setTimeout of checkBotTurn, for the bot it captured
executeBotTurn(s, botId, r) ==
    LET i    == findIndex(s.players, botId)
        hand == IF i < 0 THEN <<>> ELSE PlayerAt(s.players, i).hand
        k    == BotChoice(s, hand)
        s0   == [s EXCEPT !.botTurnTimeout = NoPlayer, !.lastOp = "botTurn"]
    IN  IF i < 0 \/ BotFilterThrows(s, hand) THEN s0
        ELSE IF k = 0 THEN Entered(drawCard(s0, botId, r), "botTurn")
        ELSE Entered(
               playCard(IF Len(hand) = 2 THEN callUno(s0, botId) ELSE s0,
                        botId, hand[k].id,
                        IF hand[k].color = "black"
                        THEN BotColorFrom(hand, BotColorKeys[1], 2)
                        ELSE NoColor,
                        r),
               "botTurn")

(***************************************************************************)
(* Roster: join, reconnect, exit, bots.                                    *)
(***************************************************************************)
\* connections.get(pid), NoConn when absent
ConnGet(conns, pid) ==
    LET hits == {k \in 1..Len(conns) : conns[k].pid = pid}
    IN  IF hits = {} THEN NoConn ELSE conns[Min(hits)].conn

\* connections.set(pid, c): an existing key keeps its place in the Map
ConnSet(conns, pid, c) ==
    IF ConnGet(conns, pid) = NoConn
    THEN Append(conns, [pid |-> pid, conn |-> c])
    ELSE [k \in 1..Len(conns) |->
            IF conns[k].pid = pid THEN [pid |-> pid, conn |-> c] ELSE conns[k]]

\* connections.delete(pid)
ConnDelete(conns, pid) ==
    LET hits == {k \in 1..Len(conns) : conns[k].pid = pid}
    IN  IF hits = {} THEN conns ELSE RemoveAt(conns, Min(hits))

\* the close handler's reverse lookup: the first key whose connection is c
ConnOwner(conns, c) ==
    LET hits == {k \in 1..Len(conns) : conns[k].conn = c}
    IN  IF hits = {} THEN NoPlayer ELSE conns[Min(hits)].pid

\* the JOIN_RESPONSE conn.send hands over, with the part of initialState the
\* response is read for
JoinResponse(s, c, success, playerId) ==
    [conn |-> c, success |-> success, playerId |-> playerId,
     players |-> IF success THEN s.players ELSE <<>>,
     status |-> IF success THEN s.status ELSE "none"]

\* variant: a known existingId is answered like a new join
ReconnectAsNewPlayer(s, c, existingId) ==
    LET s1 == [s EXCEPT
                  !.players = Append(s.players,
                      NewPlayer(s.nextId, FALSE, FALSE, s.status # "LOBBY")),
                  !.nextId = s.nextId + 1,
                  !.connections = ConnSet(s.connections, s.nextId, c),
                  !.lastOp = "rejoin"]
    IN  [s1 EXCEPT !.lastResponse = JoinResponse(s1, c, TRUE, s.nextId)]

\* conn.send({type: 'JOIN_RESPONSE', ...}): the response echoes the requestId
\* of the request it answers, the one the controller at c sent
send(s, c, success, playerId, error) ==
    [s EXCEPT
        !.lastResponse = JoinResponse(s, c, success, playerId),
        !.wire = [b \in DOMAIN s.wire |->
                    IF b # c THEN s.wire[b]
                    ELSE Append(s.wire[b],
                             JoinResponseMessage(s.remote[c].requestId, success, playerId,
                                 IF success THEN SessionOf(s) ELSE NoState,
                                 error, s.sent))]]

\* variant: a reconnect puts the player back in the round
ReconnectRevives(s, c, existingId) ==
    LET i  == findIndex(s.players, existingId)
        s1 == [s EXCEPT !.connections = ConnSet(s.connections, existingId, c),
                        !.players[i + 1].isEliminated = FALSE,
                        !.lastOp = "rejoin"]
    IN  notify(send(s1, c, TRUE, existingId, ""))

\* lines 897-908
Reconnect(s, c, existingId) ==
    LET s1 == [s EXCEPT !.connections = ConnSet(s.connections, existingId, c),
                        !.lastOp = "rejoin"]
    IN  notify(send(s1, c, TRUE, existingId, ""))

\* variant: the ceiling test is > instead of >=
NewJoinOneMore(s, c) ==
    IF Len(s.players) > MaxPlayers
    THEN [s EXCEPT !.lastResponse = JoinResponse(s, c, FALSE, NoPlayer),
                   !.lastOp = "joinRefused"]
    ELSE LET s1 == [s EXCEPT
                      !.players = Append(s.players,
                          NewPlayer(s.nextId, FALSE, FALSE, s.status # "LOBBY")),
                      !.nextId = s.nextId + 1,
                      !.connections = ConnSet(s.connections, s.nextId, c),
                      !.lastOp = "join"]
         IN  [s1 EXCEPT !.lastResponse = JoinResponse(s1, c, TRUE, s.nextId)]

\* lines 910-942
NewJoin(s, c) ==
    IF Len(s.players) >= MaxPlayers
    THEN send([s EXCEPT !.lastOp = "joinRefused"], c, FALSE, NoPlayer, "Room Full")
    ELSE LET s1 == [s EXCEPT
                      !.players = Append(s.players,
                          NewPlayer(s.nextId, FALSE, FALSE, s.status # "LOBBY")),
                      !.nextId = s.nextId + 1,
                      !.connections = ConnSet(s.connections, s.nextId, c),
                      !.lastOp = "join"]
         IN  send(notify(logPush(s1)), c, TRUE, s.nextId, "")

handleJoinRequest(s, c, existingId) ==
    IF existingId # NoPlayer /\ findIndex(s.players, existingId) >= 0
    THEN Reconnect(s, c, existingId)
    ELSE NewJoin(s, c)

\* variant: the turn stays on the seat of the player who left
ExitRoundKeepsTurn(s, playerId) ==
    LET i   == findIndex(s.players, playerId)
        s1  == logPush([s EXCEPT !.players[i + 1].isEliminated = TRUE,
                                 !.players[i + 1].hand = <<>>,
                                 !.players[i + 1].isSpectator = TRUE])
        act == ActiveIndices(s1.players)
    IN  IF Cardinality(act) <= 1 /\ s1.status # "GAME_OVER"
        THEN notify(logPush(
                 [s1 EXCEPT !.timerInterval = FALSE, !.botTurnTimeout = NoPlayer,
                            !.status = "GAME_OVER",
                            !.winner = IF Cardinality(act) = 1
                                       THEN PlayerAt(s1.players, Min(act)).id
                                       ELSE s1.winner]))
        ELSE notify(s1)

\* variant: the hand of the player who left goes under the deck
ExitRoundReturnsHand(s, playerId) ==
    LET i   == findIndex(s.players, playerId)
        s1  == logPush([s EXCEPT !.players[i + 1].isEliminated = TRUE,
                                 !.players[i + 1].hand = <<>>,
                                 !.players[i + 1].isSpectator = TRUE,
                                 !.deck = s.players[i + 1].hand \o s.deck])
        act == ActiveIndices(s1.players)
    IN  IF Cardinality(act) <= 1 /\ s1.status # "GAME_OVER"
        THEN notify(logPush(
                 [s1 EXCEPT !.timerInterval = FALSE, !.botTurnTimeout = NoPlayer,
                            !.status = "GAME_OVER",
                            !.winner = IF Cardinality(act) = 1
                                       THEN PlayerAt(s1.players, Min(act)).id
                                       ELSE s1.winner]))
        ELSE IF s1.status # "GAME_OVER" /\ s1.currentPlayerIndex = i
        THEN checkBotTurn(notify(advanceTurn(s1, 1)))
        ELSE notify(s1)

\* variant: the state is broadcast before the turn moves on
ExitRoundBroadcastsFirst(s, playerId) ==
    LET i   == findIndex(s.players, playerId)
        s1  == logPush([s EXCEPT !.players[i + 1].isEliminated = TRUE,
                                 !.players[i + 1].hand = <<>>,
                                 !.players[i + 1].isSpectator = TRUE])
        act == ActiveIndices(s1.players)
    IN  IF Cardinality(act) <= 1 /\ s1.status # "GAME_OVER"
        THEN notify(logPush(
                 [s1 EXCEPT !.timerInterval = FALSE, !.botTurnTimeout = NoPlayer,
                            !.status = "GAME_OVER",
                            !.winner = IF Cardinality(act) = 1
                                       THEN PlayerAt(s1.players, Min(act)).id
                                       ELSE s1.winner]))
        ELSE IF s1.status # "GAME_OVER" /\ s1.currentPlayerIndex = i
        THEN checkBotTurn(advanceTurn(notify(s1), 1))
        ELSE notify(s1)

\* lines 960-989, for a player found and not yet eliminated
ExitRound(s, playerId) ==
    LET i   == findIndex(s.players, playerId)
        s1  == logPush([s EXCEPT !.players[i + 1].isEliminated = TRUE,
                                 !.players[i + 1].hand = <<>>,
                                 !.players[i + 1].isSpectator = TRUE])
        act == ActiveIndices(s1.players)
    IN  IF Cardinality(act) <= 1 /\ s1.status # "GAME_OVER"
        THEN notify(logPush(
                 [s1 EXCEPT !.timerInterval = FALSE, !.botTurnTimeout = NoPlayer,
                            !.status = "GAME_OVER",
                            !.winner = IF Cardinality(act) = 1
                                       THEN PlayerAt(s1.players, Min(act)).id
                                       ELSE s1.winner]))
        ELSE IF s1.status # "GAME_OVER" /\ s1.currentPlayerIndex = i
        THEN checkBotTurn(notify(advanceTurn(s1, 1)))
        ELSE notify(s1)

handlePlayerExit(s, playerId) ==
    LET c  == ConnGet(s.connections, playerId)
        s1 == IF c = NoConn THEN [s EXCEPT !.lastOp = "exit"]
              ELSE [s EXCEPT !.closedConns = s.closedConns \cup {c},
                             !.connections = ConnDelete(s.connections, playerId),
                             !.lastOp = "exit"]
        i  == findIndex(s1.players, playerId)
    IN  IF s1.status = "LOBBY"
        THEN notify([s1 EXCEPT !.players =
                        SelectSeq(s1.players, LAMBDA p : p.id # playerId)])
        ELSE IF i >= 0 /\ ~PlayerAt(s1.players, i).isEliminated
        THEN ExitRound(s1, playerId)
        ELSE notify(s1)

\* the 'close' handler of a connection (lines 850-866)
connectionClosed(s, c) ==
    LET s1 == [s EXCEPT !.closedConns = s.closedConns \cup {c}, !.lastOp = "close"]
    IN  IF ConnOwner(s.connections, c) = NoPlayer THEN s1
        ELSE Entered(handlePlayerExit(s1, ConnOwner(s.connections, c)), "close")

addBot(s) ==
    IF Len(s.players) >= MaxPlayers THEN s
    ELSE notify(logPush(
             [s EXCEPT !.players = Append(s.players,
                                          NewPlayer(s.nextId, FALSE, TRUE, FALSE)),
                       !.nextId = s.nextId + 1,
                       !.lastOp = "addBot"]))

\* ACTION on connection c (lines 994-1002): the handler is given the payload
\* only, not the connection
handleRemoteAction(s, c, action, playerId, cardId, wildColor, r) ==
    CASE action = "playCard" -> playCard(s, playerId, cardId, wildColor, r)
      [] action = "drawCard" -> drawCard(s, playerId, r)
      [] action = "callUno"  -> callUno(s, playerId)
      [] OTHER -> s

\* LEAVE_REQUEST on connection c (lines 889-891, 944-946)
handleLeaveRequest(s, c, playerId) == handlePlayerExit(s, playerId)

(***************************************************************************)
(* The host as a state machine: one action per event the host handles.     *)
(* Local calls and peer messages reach the same handlers.  A call with no  *)
(* effect at all is no step.  offPhase marks a call the client views do    *)
(* not offer in the current status (src/App.tsx 178-180, 529, 663); such   *)
(* calls are counted in strays and bounded by MaxStrays.                   *)
(***************************************************************************)
Init == Commit0(InitialState("QUICK")) \/ Commit0(InitialState("TOURNAMENT"))

Step(offPhase, t) ==
    /\ ~hung
    /\ t.lastOp # "none"
    /\ offPhase => strays < MaxStrays
    /\ Commit(IF offPhase THEN [t EXCEPT !.strays = strays + 1] ELSE t)

NetStep(offPhase, t) ==
    /\ netEvents < MaxNetEvents
    /\ Step(offPhase, [t EXCEPT !.netEvents = netEvents + 1])

\* e is no id at all or the id of a player a JOIN_REQUEST created, the only
\* ids a client holds in its saved session
JoinedByRequest(ps, e) ==
    findIndex(ps, e) >= 0 =>
        ~PlayerAt(ps, findIndex(ps, e)).isBot /\ ~PlayerAt(ps, findIndex(ps, e)).isHost

\* JOIN_REQUEST on connection c, with payload.existingId = e (or none).  A
\* client sends one JOIN_REQUEST per connection (RemoteGameController.joinGame,
\* lines 1413-1418); a second one on the same connection is off-phase.
JoinRequest ==
    \E c \in Conns \ closedConns, e \in PlayerIds \cup {NoPlayer} :
        /\ \A b \in Conns : b < c => b \in joinedConns
        /\ (findIndex(players, e) < 0 /\ Len(players) < MaxPlayers)
              => nextId <= MaxIds
        /\ NetStep(c \in joinedConns \/ ~JoinedByRequest(players, e),
                   [handleJoinRequest(St, c, e) EXCEPT
                       !.joinedConns = joinedConns \cup {c}])

\* LEAVE_REQUEST with payload.playerId = p, or the local leaveGame(p)
LeaveRequest ==
    \E p \in PlayerIds :
        NetStep(ConnGet(connections, p) = NoConn, handlePlayerExit(St, p))

\* connection c closes; the close of a connection that never sent its
\* JOIN_REQUEST finds no player and is left out
ConnectionClose ==
    \E c \in joinedConns \ closedConns :
        NetStep(FALSE, connectionClosed(St, c))

AddBot ==
    /\ Len(players) < MaxPlayers => nextId <= MaxIds
    /\ Step(status # "LOBBY", addBot(St))

StartGame ==
    \E r \in RandomSeeds :
        /\ deckGen < MaxDeals
        /\ Step(status # "LOBBY", startGame(St, r))

NextRound ==
    \E r \in RandomSeeds :
        /\ deckGen < MaxDeals
        /\ Step(status # "ROUND_OVER", nextRound(St, r))

IsBotId(ps, p) == findIndex(ps, p) >= 0 /\ PlayerAt(ps, findIndex(ps, p)).isBot

\* the seeds that can make a difference: a handler draws at most 5 cards (the
\* penalty and a wild4), so it reshuffles only from a deck of fewer than 5
SeedsNow == IF Len(deck) < 5 THEN RandomSeeds ELSE {0}

\* the wild colors a call may carry for the card: none for a colored card
\* (the argument is then ignored), any deck color or none for a black one
WildColorsFor(card) ==
    IF card.color = "black"
    THEN {DeckColors[k] : k \in 1..Len(DeckColors)} \cup {NoColor}
    ELSE {NoColor}

\* playCard(p, cardId, wildColor), local or by ACTION message.  Only a call
\* for the player at currentPlayerIndex and a card of that player's hand
\* passes playCard's first two guards; every other call has no effect.
PlayCard ==
    /\ InRange(players, currentPlayerIndex)
    /\ turns < MaxTurns
    /\ \E k \in 1..Len(PlayerAt(players, currentPlayerIndex).hand) :
         \E wildColor \in WildColorsFor(PlayerAt(players, currentPlayerIndex).hand[k]),
            r \in SeedsNow :
             Step(status # "PLAYING" \/ PlayerAt(players, currentPlayerIndex).isBot,
                  playCard(St, PlayerAt(players, currentPlayerIndex).id,
                           PlayerAt(players, currentPlayerIndex).hand[k].id,
                           wildColor, r))

\* drawCard(p), local or by ACTION message; a call for any other player than
\* the one at currentPlayerIndex has no effect
DrawCard ==
    /\ InRange(players, currentPlayerIndex)
    /\ turns < MaxTurns
    /\ \E r \in SeedsNow :
         Step(status # "PLAYING" \/ PlayerAt(players, currentPlayerIndex).isBot,
              drawCard(St, PlayerAt(players, currentPlayerIndex).id, r))

CallUno ==
    \E p \in PlayerIds :
        /\ turns < MaxTurns
        /\ Step(status # "PLAYING" \/ IsBotId(players, p), callUno(St, p))

TimerTick ==
    \E r \in SeedsNow :
        /\ timerInterval
        /\ turns < MaxTurns
        /\ Step(FALSE, timerTick(St, r))

BotTurn ==
    \E r \in SeedsNow :
        /\ botTurnTimeout # NoPlayer
        /\ turns < MaxTurns
        /\ Step(FALSE, executeBotTurn(St, botTurnTimeout, r))

Next ==
    \/ JoinRequest
    \/ LeaveRequest
    \/ ConnectionClose
    \/ AddBot
    \/ StartGame
    \/ NextRound
    \/ PlayCard
    \/ DrawCard
    \/ CallUno
    \/ TimerTick
    \/ BotTurn

Spec == Init /\ [][Next]_vars

(***************************************************************************)
(* getNextPlayerIndex on its own: every roster of up to MaxPlayers seats,  *)
(* every current seat and both directions, then turn advances by 1 or 2.   *)
(* The function reads players[i].isEliminated, players[i].isSpectator,     *)
(* currentPlayerIndex and direction only.                                  *)
(***************************************************************************)
SeatKinds == {"active", "eliminated", "spectator", "left"}

SeatPlayer(k, kind) ==
    [NewPlayer(k - 1, k = 1, FALSE, kind \in {"spectator", "left"})
        EXCEPT !.isEliminated = kind \in {"eliminated", "left"}]

SeatInit ==
    \E n \in 1..MaxPlayers :
        \E f \in [1..n -> SeatKinds], i \in 0..(n - 1), d \in {1, -1} :
            Commit0([InitialState("TOURNAMENT") EXCEPT
                        !.players = [k \in 1..n |-> SeatPlayer(k, f[k])],
                        !.currentPlayerIndex = i,
                        !.direction = d,
                        !.status = "PLAYING"])

SeatAdvance ==
    \E offset \in {1, 2} :
        /\ ~hung
        /\ turns < MaxTurns
        /\ Commit([advanceTurn(St, offset) EXCEPT
                      !.turns = turns + 1, !.lastOp = "advance"])

SeatNext == SeatAdvance

SeatSpec == SeatInit /\ [][SeatNext]_vars

(***************************************************************************)
(* Properties.  lastOp names the handler a step entered.  A play is a step *)
(* of playCard, called directly or by a bot turn, that passed the guards:  *)
(* it is the only step that puts a new card on top of the discard pile.    *)
(***************************************************************************)
RECURSIVE HandCards(_)
HandCards(ps) == IF ps = <<>> THEN <<>> ELSE Head(ps).hand \o HandCards(Tail(ps))

AllCards == deck \o discardPile \o HandCards(players)

TotalCards == Len(AllCards)

DistinctIds == Cardinality({AllCards[k].id : k \in 1..Len(AllCards)}) = Len(AllCards)

ActiveCount == Cardinality(ActiveIndices(players))

Holder == PlayerAt(players, currentPlayerIndex)

\* the player who held the turn before the step, as the step leaves them
HolderAfter == PlayerAt(players', currentPlayerIndex)

Played ==
    /\ lastOp' \in {"playCard", "botTurn"}
    /\ InRange(players, currentPlayerIndex)
    /\ Top(discardPile') # Top(discardPile)

DrewOrPlayed == lastOp' \in {"playCard", "drawCard", "botTurn", "timeout"}

WonRound == Played /\ Len(HolderAfter.hand) = 0

\* the seat reached from seat from by stepping dir until offset active seats
\* have been passed; -1 when no seat is active
SeatAt(ps, from, dir, k) == (from + k * dir + k * Len(ps)) % Len(ps)

ActivePassed(ps, from, dir, k) ==
    Cardinality({j \in 1..k : Active(PlayerAt(ps, SeatAt(ps, from, dir, j)))})

SeatReached(ps, from, dir, offset) ==
    IF ActiveIndices(ps) = {} THEN -1
    ELSE SeatAt(ps, from, dir,
                Min({k \in 1..(offset * Len(ps)) :
                        ActivePassed(ps, from, dir, k) = offset}))

\* the points the round resolution counts for a card
ClaimPoints(card) ==
    CASE card.type \in {"wild", "wild4"} -> 50
      [] card.type \in {"skip", "reverse", "draw2"} -> 20
      [] OTHER -> card.value

RECURSIVE ClaimHandScore(_)
ClaimHandScore(hand) ==
    IF hand = <<>> THEN 0 ELSE ClaimPoints(Head(hand)) + ClaimHandScore(Tail(hand))

MaxOf(S) == CHOOSE x \in S : \A y \in S : y <= x


\* C1: while status is PLAYING and some player is neither eliminated nor a
\* spectator, the player at currentPlayerIndex is neither eliminated nor a
\* spectator.
C1_TurnHolderActive ==
    (status = "PLAYING" /\ ActiveIndices(players) # {})
        => (InRange(players, currentPlayerIndex) /\ Active(Holder))

\* a round goes on after a turn-consuming step although a seat is inactive
C1_TurnPastInactiveSeat ==
    /\ status = "PLAYING"
    /\ lastOp \in {"playCard", "drawCard", "botTurn", "timeout", "exit", "close"}
    /\ \E i \in 0..(Len(players) - 1) : ~Active(PlayerAt(players, i))
    /\ ActiveCount >= 2
    /\ Active(Holder)

\* C2: right after every startGame and nextRound that leaves status PLAYING,
\* the deck, the discard pile and all hands together hold exactly one full
\* deck (108 cards in the code, DeckSize here).
C2_FullDeckAfterDeal ==
    (lastOp \in {"startGame", "nextRound"} /\ status = "PLAYING")
        => TotalCards = DeckSize

\* C3: every play and every draw (forced draws, penalty draw and reshuffle
\* included) leaves the number of cards in deck, discard pile and hands
\* unchanged, and no card id is ever in two places at once.
C3_CardsConserved ==
    [][/\ DrewOrPlayed =>
            Len(deck') + Len(discardPile') + Len(HandCards(players')) = TotalCards
       /\ DistinctIds']_vars

\* a play during which the discard pile was reshuffled into the empty deck
C3_ReshuffledInPlay ==
    /\ lastOp \in {"playCard", "botTurn"}
    /\ status = "PLAYING"
    /\ Len(discardPile) = 1
    /\ turns > 0

\* C4: a play that takes the player from 2 cards to 1 while hasCalledUno was
\* false leaves that player with exactly 2 cards.
C4_PenaltyLeavesTwo ==
    [][(/\ lastOp' = "playCard"
        /\ Played
        /\ Len(Holder.hand) = 2
        /\ ~Holder.hasCalledUno)
           => Len(HolderAfter.hand) = 2]_vars

\* C5: a reverse that does not empty the hand: with exactly 2 active players
\* direction is unchanged and the turn stays with the player; with any other
\* number direction flips and the turn moves one active seat in the new
\* direction.
C5_Reverse ==
    [][(Played /\ Top(discardPile').type = "reverse" /\ Len(HolderAfter.hand) > 0)
          => IF ActiveCount = 2
             THEN /\ direction' = direction
                  /\ currentPlayerIndex' = currentPlayerIndex
             ELSE /\ direction' = -direction
                  /\ currentPlayerIndex' =
                        SeatReached(players', currentPlayerIndex, direction', 1)]_vars

\* a reverse was just played between exactly two active players
C5_ReverseOfTwo ==
    /\ lastOp \in {"playCard", "botTurn"}
    /\ status = "PLAYING"
    /\ Top(discardPile).type = "reverse"
    /\ ActiveCount = 2
    /\ Len(Holder.hand) > 0

\* C6: with at least one active seat, getNextPlayerIndex(offset), offset 1 or
\* 2, is the seat reached by walking from the current seat in direction order
\* with wraparound until offset active seats have been passed, and that seat
\* is active.
C6_NextSeat ==
    ActiveIndices(players) # {} =>
        \A offset \in {1, 2} :
            /\ getNextPlayerIndex(St, offset)
                  = SeatReached(players, currentPlayerIndex, direction, offset)
            /\ Active(PlayerAt(players, getNextPlayerIndex(St, offset)))

\* [A, B, C] with B eliminated, direction +1, the turn at A: the next seat is C
C6_SkipsEliminated ==
    /\ lastOp = "advance"
    /\ Len(players) = 3
    /\ Active(PlayerAt(players, 0))
    /\ PlayerAt(players, 1).isEliminated
    /\ Active(PlayerAt(players, 2))
    /\ direction = 1
    /\ currentPlayerIndex = 0
    /\ getNextPlayerIndex(St, 1) = 2

\* C7: in TOURNAMENT mode a play that empties the hand scores every other
\* active player with the points of their hand, sets the winner's score to 0,
\* eliminates the one active player of highest score when that score is above
\* 0, and leaves ROUND_OVER, or GAME_OVER with the one remaining active player
\* as winner.
C7_TournamentResolution ==
    [][(WonRound /\ mode = "TOURNAMENT") =>
          LET act   == ActiveIndices(players)
              sc(i) == PlayerAt(players', i).score
              top   == MaxOf({sc(i) : i \in act} \cup {0})
              out   == {i \in act : PlayerAt(players', i).isEliminated}
              rem   == ActiveIndices(players')
          IN  /\ currentPlayerIndex \in act
              /\ \A i \in act \ {currentPlayerIndex} :
                    sc(i) = ClaimHandScore(PlayerAt(players', i).hand)
              /\ sc(currentPlayerIndex) = 0
              /\ IF top > 0 THEN \E i \in act : out = {i} /\ sc(i) = top
                 ELSE out = {}
              /\ IF Cardinality(rem) = 1
                 THEN /\ status' = "GAME_OVER"
                      /\ \E i \in rem : winner' = PlayerAt(players', i).id
                 ELSE status' = "ROUND_OVER"]_vars

\* a tournament round among three just ended with one player eliminated
C7_RoundOverWithElimination ==
    /\ lastOp \in {"playCard", "botTurn"}
    /\ mode = "TOURNAMENT"
    /\ status = "ROUND_OVER"
    /\ Len(Holder.hand) = 0
    /\ \E i \in 0..(Len(players) - 1) :
          /\ PlayerAt(players, i).isEliminated
          /\ PlayerAt(players, i).score > 0
          /\ PlayerAt(players, i).hand # <<>>

\* C8: in QUICK mode a play that empties the hand sets status GAME_OVER and
\* winner to that player in the same step, eliminates nobody and does not
\* move the turn.
C8_QuickWin ==
    [][(WonRound /\ mode = "QUICK") =>
          /\ status' = "GAME_OVER"
          /\ winner' = Holder.id
          /\ Len(players') = Len(players)
          /\ \A i \in 0..(Len(players) - 1) :
                PlayerAt(players', i).isEliminated = PlayerAt(players, i).isEliminated
          /\ currentPlayerIndex' = currentPlayerIndex]_vars

\* a quick match just ended on a play of the winner's last card
C8_QuickMatchWon ==
    /\ lastOp \in {"playCard", "botTurn"}
    /\ mode = "QUICK"
    /\ status = "GAME_OVER"
    /\ InRange(players, currentPlayerIndex)
    /\ Len(Holder.hand) = 0
    /\ winner = Holder.id
    /\ Len(discardPile) > 1

\* C9: a JOIN_REQUEST whose existingId is in the roster, in any status and
\* also when sent again on any connection, leaves every player record as it
\* was, answers success with that id and the current state, and attaches the
\* sender's connection to that player.
C9_Reconnect ==
    \A c \in Conns, e \in PlayerIds :
        findIndex(players, e) >= 0 =>
            LET t == handleJoinRequest(St, c, e)
            IN  /\ SessionOf(t) = SessionOf(St)
                /\ t.lastResponse = [conn |-> c, success |-> TRUE, playerId |-> e,
                                     players |-> players, status |-> status]
                /\ ConnGet(t.connections, e) = c
                /\ \A c2 \in Conns :
                      LET u == handleJoinRequest(t, c2, e)
                      IN  /\ SessionOf(u) = SessionOf(St)
                          /\ u.lastResponse = [t.lastResponse EXCEPT !.conn = c2]
                          /\ ConnGet(u.connections, e) = c2

\* a player rejoined on a new connection while a game was under way
C9_RejoinedMidGame ==
    /\ lastOp = "rejoin"
    /\ status # "LOBBY"
    /\ lastResponse.success
    /\ findIndex(players, lastResponse.playerId) >= 0
    /\ ConnGet(connections, lastResponse.playerId) = lastResponse.conn
    /\ lastResponse.conn \notin closedConns

\* C10: the roster never exceeds the room ceiling (15 in the code, MaxPlayers
\* here); a new join that finds the room full is answered with a failure and
\* changes nothing; a new join accepted outside the lobby creates a spectator
\* with an empty hand.
C10_RoomCeiling ==
    /\ Len(players) <= MaxPlayers
    /\ \A c \in Conns, e \in PlayerIds \cup {NoPlayer} :
          findIndex(players, e) < 0 =>
              LET t == handleJoinRequest(St, c, e)
              IN  IF Len(players) >= MaxPlayers
                  THEN /\ ~t.lastResponse.success
                       /\ t.lastResponse.conn = c
                       /\ SessionOf(t) = SessionOf(St)
                       /\ t.connections = connections
                  ELSE /\ t.lastResponse.success
                       /\ Len(t.players) = Len(players) + 1
                       /\ SubSeq(t.players, 1, Len(players)) = players
                       /\ t.lastResponse.playerId = t.players[Len(t.players)].id
                       /\ status # "LOBBY" =>
                             /\ t.players[Len(t.players)].isSpectator
                             /\ t.players[Len(t.players)].hand = <<>>

\* a join that found the room full was refused
C10_JoinRefused ==
    /\ lastOp = "joinRefused"
    /\ Len(players) = MaxPlayers
    /\ ~lastResponse.success

(***************************************************************************)
(* isValidMove on its own: the holder of the turn has one card, any face   *)
(* of the four colors or black, against any top card and any current       *)
(* color, and plays it.                                                    *)
(***************************************************************************)
AllFaces ==
    {Face(c, "number", v) : c \in {COLORS[k] : k \in 1..Len(COLORS)}, v \in 0..MaxValue}
    \cup {Face(c, ty, NoValue) : c \in {COLORS[k] : k \in 1..Len(COLORS)},
                                 ty \in {"skip", "reverse", "draw2"}}
    \cup {Face("black", ty, NoValue) : ty \in {"wild", "wild4"}}

CardOf(face, id) ==
    [id |-> id, color |-> face.color, type |-> face.type, value |-> face.value]

MoveInit ==
    \E card \in AllFaces, top \in AllFaces, filler \in {Face("red", "number", 0)},
       color \in {COLORS[k] : k \in 1..Len(COLORS)} \cup {"black"},
       m \in {"QUICK", "TOURNAMENT"} :
        Commit0([InitialState(m) EXCEPT
            !.players = <<[NewPlayer(HostId, TRUE, FALSE, FALSE) EXCEPT
                              !.hand = <<CardOf(card, 1)>>, !.hasCalledUno = TRUE],
                          [NewPlayer(1, FALSE, FALSE, FALSE) EXCEPT
                              !.hand = <<CardOf(filler, 2)>>]>>,
            !.nextId = 2,
            !.deck = <<CardOf(filler, 4), CardOf(filler, 5)>>,
            !.discardPile = <<CardOf(top, 3)>>,
            !.currentColor = color,
            !.status = "PLAYING",
            !.deckGen = 1,
            !.timerInterval = TRUE])

MovePlay ==
    /\ status = "PLAYING"
    /\ Holder.hand # <<>>
    /\ \E wildColor \in WildColorsFor(Holder.hand[1]) :
          Step(FALSE, playCard(St, Holder.id, Holder.hand[1].id, wildColor, 0))

MoveNext == MovePlay

MoveSpec == MoveInit /\ [][MoveNext]_vars

\* the legality rule: black, or the active color, or the top card's type and,
\* for numbers, its value
ClaimLegal(card, topCard, color) ==
    \/ card.color = "black"
    \/ card.color = color
    \/ /\ card.type = topCard.type
       /\ (card.type # "number" \/ card.value = topCard.value)

\* C11: a playCard for a player who does not hold the turn (known or not),
\* for a card id that is not in the holder's hand, or for a card that is not
\* legal against the top card and currentColor, and a drawCard for a player
\* who does not hold the turn, change nothing at all, push no log entry and
\* broadcast nothing.
C11_RejectedChangesNothing ==
    \A p \in PlayerIds \cup {MaxIds + 1} :
        LET holds == InRange(players, currentPlayerIndex) /\ Holder.id = p
        IN  /\ ~holds => drawCard(St, p, 0) = St
            /\ \A k \in {AllCards[j].id : j \in 1..Len(AllCards)} \cup {0} :
                  \A wildColor \in {NoColor, "red"} :
                      (\/ ~holds
                       \/ \A j \in 1..Len(Holder.hand) :
                             Holder.hand[j].id = k =>
                                ~ClaimLegal(Holder.hand[j], Top(discardPile),
                                            currentColor))
                          => playCard(St, p, k, wildColor, 0) = St

\* the holder of the turn has a card that cannot be played and another player
\* has a card that could
C11_IllegalCardHeld ==
    /\ status = "PLAYING"
    /\ lastOp \in {"playCard", "drawCard", "botTurn", "timeout"}
    /\ \E j \in 1..Len(Holder.hand) :
          /\ ~ClaimLegal(Holder.hand[j], Top(discardPile), currentColor)
          /\ playCard(St, Holder.id, Holder.hand[j].id, NoColor, 0) = St
    /\ \E i \in 0..(Len(players) - 1) :
          /\ i # currentPlayerIndex
          /\ \E j \in 1..Len(PlayerAt(players, i).hand) :
                /\ ClaimLegal(PlayerAt(players, i).hand[j], Top(discardPile),
                              currentColor)
                /\ playCard(St, PlayerAt(players, i).id,
                            PlayerAt(players, i).hand[j].id, NoColor, 0) = St

\* C12: isValidMove is true exactly for a black card, a card of the active
\* color, or a card of the top card's type (and value, for numbers); and
\* playCard puts a card of the holder on the discard pile exactly when the
\* card is legal against the top card and currentColor before the play.
C12_LegalMoves ==
    (InRange(players, currentPlayerIndex) /\ discardPile # <<>>) =>
        \A j \in 1..Len(Holder.hand) :
            LET card == Holder.hand[j]
                t    == playCard(St, Holder.id, card.id, NoColor, 0)
            IN  /\ isValidMove(card, Top(discardPile), currentColor)
                      <=> ClaimLegal(card, Top(discardPile), currentColor)
                /\ (Top(t.discardPile) = card)
                      <=> ClaimLegal(card, Top(discardPile), currentColor)

\* a card that matches the top card by type only was just played
C12_PlayedOnTypeMatch ==
    /\ lastOp = "playCard"
    /\ Len(discardPile) = 2
    /\ discardPile[2].color \notin {"black", discardPile[1].color}
    /\ discardPile[2].type = discardPile[1].type

\* C13: a player whose hasCalledUno flag is set holds at most 2 cards, so the
\* flag does not survive a draw that takes the hand above 2.
C13_UnoFlagSmallHand ==
    \A i \in 1..Len(players) :
        players[i].hasCalledUno => Len(players[i].hand) <= 2

ClaimTransitions ==
    {<<"LOBBY", "PLAYING">>, <<"PLAYING", "ROUND_OVER">>, <<"PLAYING", "GAME_OVER">>,
     <<"ROUND_OVER", "PLAYING">>, <<"ROUND_OVER", "GAME_OVER">>}

\* C14: status only moves LOBBY -> PLAYING, PLAYING -> ROUND_OVER,
\* PLAYING -> GAME_OVER, ROUND_OVER -> PLAYING or ROUND_OVER -> GAME_OVER.
C14_StatusTransitions ==
    [][status' # status => <<status, status'>> \in ClaimTransitions]_vars

\* C15: once status is GAME_OVER no later operation changes status or winner.
C15_GameOverTerminal ==
    [][status = "GAME_OVER" => (status' = status /\ winner' = winner)]_vars

\* the roster of t, seat by seat, is the roster of ps except for the flags
\* and the hand of player p
ClaimSameSeats(ps, qs, p) ==
    /\ Len(qs) = Len(ps)
    /\ \A i \in 1..Len(ps) :
          /\ qs[i].id = ps[i].id
          /\ ps[i].id # p => qs[i] = ps[i]

ClaimExit(t, p) ==
    IF status = "LOBBY"
    THEN t.players = SelectSeq(players, LAMBDA q : q.id # p)
    ELSE /\ ClaimSameSeats(players, t.players, p)
         /\ t.deck = deck
         /\ t.discardPile = discardPile
         /\ \A i \in 1..Len(players) :
               players[i].id = p =>
                  IF players[i].isEliminated THEN t.players[i] = players[i]
                  ELSE /\ t.players[i].isEliminated
                       /\ t.players[i].isSpectator
                       /\ t.players[i].hand = <<>>

\* C16: a leave or disconnect of p in LOBBY removes p from the roster; in
\* any other status it removes no roster entry and moves no seat, and a p
\* not yet eliminated becomes eliminated and spectator with an empty hand
\* while deck and discardPile stay as they were.
C16_ExitKeepsRoster ==
    /\ \A p \in PlayerIds : ClaimExit(handlePlayerExit(St, p), p)
    /\ \A c \in Conns :
          ConnOwner(connections, c) # NoPlayer =>
              ClaimExit(connectionClosed(St, c), ConnOwner(connections, c))

\* a player left in mid-round and the cards of the hand are out of play
C16_LeftWithCards ==
    /\ lastOp \in {"exit", "close"}
    /\ status = "PLAYING"
    /\ Len(AllCards) < DeckSize
    /\ \E i \in 1..Len(players) :
          players[i].isEliminated /\ players[i].isSpectator /\ players[i].hand = <<>>

\* what the exit of p, not eliminated before, must leave behind in t: with
\* one active player the game is over and that player has won; with more
\* and p holding the turn, the broadcast shows the turn on the next active
\* seat
ClaimExitOutcome(t, p) ==
    LET i     == findIndex(players, p)
        after == ActiveIndices(t.players)
    IN  IF Cardinality(after) = 1
        THEN /\ t.status = "GAME_OVER"
             /\ t.winner = PlayerAt(t.players, Min(after)).id
             /\ t.lastBroadcast.status = "GAME_OVER"
             /\ t.lastBroadcast.winner = t.winner
        ELSE (currentPlayerIndex = i /\ Cardinality(after) >= 2) =>
                /\ t.lastBroadcast.n >= 1
                /\ t.lastBroadcast.currentPlayerIndex =
                      SeatReached(t.players, i, direction, 1)

ClaimExits(S) ==
    /\ \A p \in PlayerIds :
          (/\ status \in S
           /\ findIndex(players, p) >= 0
           /\ ~PlayerAt(players, findIndex(players, p)).isEliminated)
             => ClaimExitOutcome(handlePlayerExit(St, p), p)
    /\ \A c \in Conns :
          LET p == ConnOwner(connections, c)
          IN  (/\ status \in S
               /\ findIndex(players, p) >= 0
               /\ ~PlayerAt(players, findIndex(players, p)).isEliminated)
                 => ClaimExitOutcome(connectionClosed(St, c), p)

\* C17: a leave or disconnect outside LOBBY that leaves exactly one active
\* player ends the game with that player as winner in the same step;
\* otherwise, when the player who left held the turn, the broadcast state
\* has currentPlayerIndex on the next active seat.
C17_ExitOutcome == ClaimExits({"PLAYING", "ROUND_OVER", "GAME_OVER"})

\* C17 as amended: the same for a leave or disconnect while status is PLAYING
\* or ROUND_OVER; in GAME_OVER the winner and the turn stay as they are.
C17_ExitOutcomeBeforeGameOver == ClaimExits({"PLAYING", "ROUND_OVER"})

\* the host drew once, the player on the next seat left while holding the
\* turn, and the turn is on the third seat
C17_HolderLeft ==
    /\ lastOp \in {"exit", "close"}
    /\ status = "PLAYING"
    /\ Len(players) = 3
    /\ Len(discardPile) = 1
    /\ Len(players[1].hand) = DealCount + 1
    /\ players[2].isEliminated
    /\ Len(players[3].hand) = DealCount
    /\ currentPlayerIndex = 2
    /\ lastBroadcast.currentPlayerIndex = 2

\* startGame ran to its broadcast
ClaimStarted(t) == ~t.hung /\ t.lastBroadcast.n >= 1

\* C18: startGame with fewer than 2 players in the roster changes nothing;
\* otherwise, when it completes, every non-spectator holds DealCount cards,
\* discardPile is one non-black card, currentColor is that card's color,
\* status is PLAYING, currentPlayerIndex is the lowest index of a
\* non-spectator and turnTimer is TurnSeconds.
C18_StartGame ==
    \A r \in RandomSeeds :
        LET t == startGame(St, r)
        IN  IF Len(players) < 2 THEN t = St
            ELSE ClaimStarted(t) =>
                   /\ \A i \in 1..Len(t.players) :
                         ~t.players[i].isSpectator =>
                             Len(t.players[i].hand) = DealCount
                   /\ Len(t.discardPile) = 1
                   /\ t.discardPile[1].color # "black"
                   /\ t.currentColor = t.discardPile[1].color
                   /\ t.status = "PLAYING"
                   /\ \E i \in 0..(Len(t.players) - 1) :
                         /\ i = t.currentPlayerIndex
                         /\ ~PlayerAt(t.players, i).isSpectator
                         /\ \A j \in 0..(i - 1) : PlayerAt(t.players, j).isSpectator
                   /\ t.turnTimer = TurnSeconds

\* a game was started with a spectator in the roster
C18_StartedWithSpectator ==
    /\ lastOp = "startGame"
    /\ status = "PLAYING"
    /\ lastBroadcast.n >= 1
    /\ \E i \in 1..Len(players) : players[i].isSpectator /\ players[i].hand = <<>>
    /\ \E i \in 1..Len(players) : ~players[i].isSpectator /\ Len(players[i].hand) = DealCount

\* no card is left to draw: the deck is empty and the discard pile has at
\* most its top card
ClaimExhausted == deck = <<>> /\ Len(discardPile) <= 1

\* in a round with two or more active players, the drawCard of the holder of
\* the turn gives the holder one card more (none when none is left and
\* unlessExhausted), a deck that was empty is refilled from the discard pile
\* under its top card, the turn is one active seat further in direction and
\* the turn timer is back at TurnSeconds
ClaimDraw(unlessExhausted) ==
    (status = "PLAYING" /\ ActiveCount >= 2 /\ InRange(players, currentPlayerIndex)) =>
        \A r \in RandomSeeds :
            LET t == drawCard(St, Holder.id, r)
                n == IF unlessExhausted /\ ClaimExhausted THEN 0 ELSE 1
            IN  /\ Len(PlayerAt(t.players, currentPlayerIndex).hand)
                      = Len(Holder.hand) + n
                /\ (deck = <<>> /\ discardPile # <<>>) =>
                      /\ Len(t.deck) = Len(discardPile) - 1 - n
                      /\ t.discardPile = <<Top(discardPile)>>
                /\ t.currentPlayerIndex
                      = SeatReached(players, currentPlayerIndex, direction, 1)
                /\ t.turnTimer = TurnSeconds

\* C19: every accepted drawCard adds exactly one card to the holder's hand,
\* reshuffling the discard pile when the deck is empty, moves the turn one
\* active seat in direction and resets turnTimer to TurnSeconds, also when
\* the deck is empty and the discard pile holds only its top card.
C19_DrawOne == ClaimDraw(FALSE)

\* the cards a draw2 or wild4 makes the next seat draw
ClaimForced(card) ==
    CASE card.type = "draw2" -> 2
      [] card.type = "wild4" -> 4
      [] OTHER -> 0

\* the cards left to draw once card lies on the discard pile and the player
\* has taken the penalty card, if any
ClaimDrawable(t, seat, card) ==
    Len(deck) + Len(discardPile)
        - (Len(PlayerAt(t.players, seat).hand) - (Len(Holder.hand) - 1))

\* in a round with two or more active players, a play of the holder that is
\* accepted and leaves the holder with cards: the seat after the holder draws
\* the forced cards (all of them, or as many as are left when asAvailable)
\* and the turn goes to the second next active seat for draw2, wild4 and
\* skip, to the next one for number and wild
ClaimPlayEffects(asAvailable) ==
    (status = "PLAYING" /\ ActiveCount >= 2 /\ InRange(players, currentPlayerIndex)) =>
        \A j \in 1..Len(Holder.hand) :
            \A wildColor \in WildColorsFor(Holder.hand[j]), r \in RandomSeeds :
                LET card == Holder.hand[j]
                    t    == playCard(St, Holder.id, card.id, wildColor, r)
                    next == SeatReached(players, currentPlayerIndex, direction, 1)
                    then == SeatReached(players, currentPlayerIndex, direction, 2)
                    left == ClaimDrawable(t, currentPlayerIndex, card)
                    k    == IF asAvailable /\ left < ClaimForced(card)
                            THEN left ELSE ClaimForced(card)
                IN  (/\ t # St
                     /\ PlayerAt(t.players, currentPlayerIndex).hand # <<>>
                     /\ card.type # "reverse") =>
                        /\ Len(PlayerAt(t.players, next).hand)
                              = Len(PlayerAt(players, next).hand) + k
                        /\ t.currentPlayerIndex =
                              IF card.type \in {"draw2", "wild4", "skip"}
                              THEN then ELSE next
                        /\ (ActiveCount = 2 /\ card.type \in {"draw2", "wild4", "skip"})
                              => t.currentPlayerIndex = currentPlayerIndex
                        /\ t.direction = direction

\* C20: a successful draw2 or wild4 that does not end the round makes the
\* next active seat draw 2 or 4 cards and passes the turn to the active seat
\* after that one (back to the player when 2 are active); number and wild
\* pass the turn to the next active seat, skip to the second next.
C20_PlayEffects == ClaimPlayEffects(FALSE)

\* C21: nextRound called while status is LOBBY, PLAYING or GAME_OVER leaves
\* deck, discardPile, the hands, status, winner and currentPlayerIndex as
\* they were.
C21_NextRoundOnlyAfterRound ==
    status # "ROUND_OVER" =>
        \A r \in RandomSeeds :
            LET t == nextRound(St, r)
            IN  /\ t.deck = deck
                /\ t.discardPile = discardPile
                /\ Len(t.players) = Len(players)
                /\ \A i \in 1..Len(players) : t.players[i].hand = players[i].hand
                /\ t.status = status
                /\ t.winner = winner
                /\ t.currentPlayerIndex = currentPlayerIndex

\* the hands of ps, seat by seat
ClaimHands(ps) == [i \in 1..Len(ps) |-> ps[i].hand]

\* in a round with two or more active players, the tick that takes turnTimer
\* to 0: for an active holder it does what drawCard does for the holder, one
\* card drawn (none when none is left and unlessExhausted), the turn one
\* active seat further, turnTimer back at TurnSeconds; for an inactive holder
\* no card moves and the turn goes to the next active seat.  And an accepted
\* playCard that leaves the player with cards resets turnTimer.
ClaimTimeout(unlessExhausted) ==
    (status = "PLAYING" /\ ActiveCount >= 2 /\ InRange(players, currentPlayerIndex)) =>
        \A r \in RandomSeeds :
            LET t    == timerTick(St, r)
                d    == drawCard([St EXCEPT !.turnTimer = turnTimer - 1],
                                 Holder.id, r)
                n    == IF unlessExhausted /\ ClaimExhausted THEN 0 ELSE 1
                next == SeatReached(players, currentPlayerIndex, direction, 1)
            IN  /\ (turnTimer <= 1 /\ Active(Holder)) =>
                      /\ SessionOf(t) = SessionOf(d)
                      /\ Len(PlayerAt(t.players, currentPlayerIndex).hand)
                            = Len(Holder.hand) + n
                      /\ t.currentPlayerIndex = next
                      /\ t.turnTimer = TurnSeconds
                /\ (turnTimer <= 1 /\ ~Active(Holder)) =>
                      /\ t.deck = deck
                      /\ t.discardPile = discardPile
                      /\ ClaimHands(t.players) = ClaimHands(players)
                      /\ t.currentPlayerIndex = next
                /\ \A j \in 1..Len(Holder.hand) :
                      \A wildColor \in WildColorsFor(Holder.hand[j]) :
                          LET u == playCard(St, Holder.id, Holder.hand[j].id,
                                            wildColor, r)
                          IN  (u # St /\ PlayerAt(u.players, currentPlayerIndex).hand # <<>>)
                                 => u.turnTimer = TurnSeconds
                /\ drawCard(St, Holder.id, r).turnTimer = TurnSeconds

\* C22: when the turn timer reaches 0 in PLAYING, an active holder gets the
\* effect of drawCard (one card drawn, turn one seat on, timer at
\* TurnSeconds), for an inactive holder no card moves and the turn goes to
\* the next active seat; every playCard that does not end the round and
\* every drawCard resets turnTimer.
C22_Timeout == ClaimTimeout(FALSE)

\* C23: once status is ROUND_OVER or GAME_OVER, a tick of the turn timer
\* changes nothing in the Session State and no bot turn scheduled earlier
\* is still armed, or else its firing changes nothing either.
C23_NoStaleTurn ==
    status \in {"ROUND_OVER", "GAME_OVER"} =>
        \A r \in RandomSeeds :
            /\ timerInterval => SessionOf(timerTick(St, r)) = SessionOf(St)
            /\ botTurnTimeout # NoPlayer =>
                  SessionOf(executeBotTurn(St, botTurnTimeout, r)) = SessionOf(St)

(***************************************************************************)
(* Session teardown.  cleanup() clears the two timers and closes every     *)
(* connection of the map without removing their 'close' listeners, so the  *)
(* close events still reach the close handler; the host object receives no *)
(* other call or message afterwards.                                       *)
(***************************************************************************)
cleanup(s) ==
    [s EXCEPT !.timerInterval = FALSE, !.botTurnTimeout = NoPlayer,
              !.tornDown = TRUE, !.lastOp = "cleanup"]

Cleanup == ~tornDown /\ Step(FALSE, cleanup(St))

TeardownNext ==
    \/ ~tornDown /\ Next
    \/ Cleanup
    \/ tornDown /\ ConnectionClose
    \/ tornDown /\ TimerTick
    \/ tornDown /\ BotTurn

TeardownSpec == Init /\ [][TeardownNext]_vars

\* C24: after cleanup no turn timer and no bot schedule is armed, and the
\* close event of a connection that is delivered then changes nothing in
\* the Session State.
C24_TornDownIsQuiet ==
    tornDown =>
        /\ ~timerInterval
        /\ botTurnTimeout = NoPlayer
        /\ \A c \in joinedConns \ closedConns :
              SessionOf(connectionClosed(St, c)) = SessionOf(St)

(***************************************************************************)
(* The host's own view.  subscribe hands the listener this.state itself    *)
(* and notify a shallow copy { ...this.state }, so gameState.players in    *)
(* the App is the host's players array.  The round-end and winner views    *)
(* sort it in place by score, highest first (the sort is stable).          *)
(***************************************************************************)
RECURSIVE InsertByScore(_, _)
InsertByScore(sorted, p) ==
    IF sorted = <<>> THEN <<p>>
    ELSE IF Head(sorted).score >= p.score
    THEN <<Head(sorted)>> \o InsertByScore(Tail(sorted), p)
    ELSE <<p>> \o sorted

RECURSIVE SortByScore(_)
SortByScore(ps) ==
    IF ps = <<>> THEN <<>>
    ELSE InsertByScore(SortByScore(SubSeq(ps, 1, Len(ps) - 1)), ps[Len(ps)])

\* one render of the round-end or winner view
renderRoundEnd(s) ==
    IF s.status \notin {"ROUND_OVER", "GAME_OVER"} \/ SortByScore(s.players) = s.players
    THEN s
    ELSE [s EXCEPT !.players = SortByScore(s.players), !.lastOp = "render"]

RenderRoundEnd == Step(FALSE, renderRoundEnd(St))

ViewNext == Next \/ RenderRoundEnd

ViewSpec == Init /\ [][ViewNext]_vars

\* C25: what a local subscriber does to the state it was handed, such as
\* sorting the players list in place, changes neither the host's roster
\* order nor the player at currentPlayerIndex, the hands, the deck or the
\* discard pile.
C25_SubscriberCannotMutate ==
    LET t == renderRoundEnd(St)
    IN  /\ t.players = players
        /\ t.deck = deck
        /\ t.discardPile = discardPile
        /\ t.currentPlayerIndex = currentPlayerIndex

\* the action changes nothing for the eliminated players of the roster
ClaimLateAction(Act(_)) ==
    \A i \in 1..Len(players) :
        players[i].isEliminated => SessionOf(Act(players[i].id)) = SessionOf(St)

\* C27: a playCard, drawCard or callUno that arrives for a player who is
\* already eliminated changes nothing in the Session State.
C27_LateActionIsNoOp ==
    /\ ClaimLateAction(LAMBDA p : callUno(St, p))
    /\ \A r \in RandomSeeds : ClaimLateAction(LAMBDA p : drawCard(St, p, r))
    /\ \A k \in {AllCards[j].id : j \in 1..Len(AllCards)} :
          ClaimLateAction(LAMBDA p : playCard(St, p, k, NoColor, 0))

\* player p as the roster of ps has it: no entry, or one
ClaimEntry(ps, p) == SelectSeq(ps, LAMBDA q : q.id = p)

\* C28: an ACTION or LEAVE_REQUEST received on a connection changes the hand,
\* the flags or the roster membership of player p only if that connection is
\* the one attached to p.
C28_ActorIsSender ==
    \A c \in Conns, p \in PlayerIds :
        (findIndex(players, p) >= 0 /\ ConnGet(connections, p) # c) =>
            /\ ClaimEntry(handleLeaveRequest(St, c, p).players, p)
                  = ClaimEntry(players, p)
            /\ \A action \in {"drawCard", "callUno"} :
                  ClaimEntry(handleRemoteAction(St, c, action, p, 0, NoColor, 0).players, p)
                     = ClaimEntry(players, p)
            /\ \A j \in 1..Len(ClaimEntry(players, p)[1].hand) :
                  ClaimEntry(handleRemoteAction(St, c, "playCard", p,
                                 ClaimEntry(players, p)[1].hand[j].id, NoColor, 0).players, p)
                     = ClaimEntry(players, p)

\* delivering the same JOIN_REQUEST a second time on the connection
ClaimJoinTwice ==
    \A c \in Conns, e \in PlayerIds \cup {NoPlayer} :
        handleJoinRequest(handleJoinRequest(St, c, e), c, e).players
            = handleJoinRequest(St, c, e).players

\* delivering the same ACTION a second time
ClaimActionTwice ==
    \A p \in PlayerIds, r1 \in 0..(RandomLevels - 1), r2 \in 0..(RandomLevels - 1) :
        /\ SessionOf(drawCard(drawCard(St, p, r1), p, r2))
              = SessionOf(drawCard(St, p, r1))
        /\ \A i \in 1..Len(players) : \A j \in 1..Len(players[i].hand) :
              \A w \in WildColorsFor(players[i].hand[j]) :
                 players[i].id = p =>
                    SessionOf(playCard(playCard(St, p, players[i].hand[j].id, w, r1),
                                       p, players[i].hand[j].id, w, r2))
                       = SessionOf(playCard(St, p, players[i].hand[j].id, w, r1))

\* C29: a JOIN_REQUEST delivered twice on a connection yields the roster of
\* one delivery, and a playCard or drawCard ACTION delivered twice leaves the
\* Session State that one delivery leaves.
C29_DuplicateTolerated == ClaimJoinTwice /\ ClaimActionTwice

(***************************************************************************)
(* The Remote Proxy: RemoteGameController, lines 1351-1475.  A controller  *)
(* is a record r; its promise is the one joinGame returned.                *)
(***************************************************************************)
MaxRequestIds == 2

RequestIds == 1..MaxRequestIds

\* resolve(playerId) of the executor: a promise settles once, later calls
\* are ignored
resolve(r, playerId) ==
    IF r.promise = "pending"
    THEN [r EXCEPT !.promise = "resolved", !.playerId = playerId]
    ELSE r

\* reject(reason)
reject(r, reason) ==
    IF r.promise = "pending"
    THEN [r EXCEPT !.promise = "rejected", !.reason = reason]
    ELSE r

\* lines 1405-1441: peer.connect; created is FALSE when connect returns
\* nothing
executeJoin(r, created) ==
    IF ~created
    THEN reject([r EXCEPT !.timeoutTimer = FALSE, !.peerErrorListener = FALSE],
                "Critical: Peer connection failed to create.")
    ELSE [r EXCEPT !.conn = "connecting"]

\* lines 1384-1450: a fresh requestId, the 5000 ms timer, the error listener,
\* and executeJoin at once when the peer is open
joinGame(r, requestId, created) ==
    LET r1 == [r EXCEPT !.promise = "pending", !.requestId = requestId,
                        !.timeoutTimer = TRUE, !.peerErrorListener = TRUE]
    IN  IF r.peerOpen THEN executeJoin(r1, created) ELSE r1

\* peer.on('open'): the executeJoin a joinGame left waiting
peerOpened(r, created) ==
    LET r1 == [r EXCEPT !.peerOpen = TRUE]
    IN  IF r.promise # "none" /\ r.conn = "null" /\ ~r.peerOpen
        THEN executeJoin(r1, created)
        ELSE r1

\* conn.on('open'), lines 1413-1418: the JOIN_REQUEST goes out
connOpened(r) == [r EXCEPT !.conn = "open"]

\* variant: any JOIN_RESPONSE settles the promise
onDataAnyRequest(r, data) ==
    LET r1 == IF data.type = "JOIN_RESPONSE"
              THEN LET r0 == [r EXCEPT !.timeoutTimer = FALSE,
                                       !.peerErrorListener = FALSE]
                   IN  IF data.success
                       THEN resolve([r0 EXCEPT !.lastState = data.state,
                                               !.heldSeq = data.seq],
                                    data.playerId)
                       ELSE reject(r0, IF data.error # "" THEN data.error
                                       ELSE "Join refused by host.")
              ELSE r
    IN  IF data.type = "STATE_UPDATE"
        THEN [r1 EXCEPT !.lastState = data.state, !.heldSeq = data.seq]
        ELSE r1

\* conn.on('data'), lines 1420-1437
onData(r, data) ==
    LET r1 == IF data.type = "JOIN_RESPONSE" /\ data.requestId = r.requestId
              THEN LET r0 == [r EXCEPT !.timeoutTimer = FALSE,
                                       !.peerErrorListener = FALSE]
                   IN  IF data.success
                       THEN resolve([r0 EXCEPT !.lastState = data.state,
                                               !.heldSeq = data.seq],
                                    data.playerId)
                       ELSE reject(r0, IF data.error # "" THEN data.error
                                       ELSE "Join refused by host.")
              ELSE r
    IN  IF data.type = "STATE_UPDATE"
        THEN [r1 EXCEPT !.lastState = data.state, !.heldSeq = data.seq]
        ELSE r1

\* the setTimeout callback of lines 1389-1392
joinTimeout(r) ==
    [reject(r, "Connection timed out. Room may be closed.") EXCEPT
        !.timeoutTimer = FALSE,
        !.conn = IF r.conn = "null" THEN "null" ELSE "closed"]

\* peerErrorListener, lines 1394-1400
peerErrorListener(r, type) ==
    IF type = "peer-unavailable"
    THEN reject([r EXCEPT !.timeoutTimer = FALSE, !.peerErrorListener = FALSE],
                "Room not found or host offline.")
    ELSE r

(***************************************************************************)
(* One controller joining, against every message a host can answer with.   *)
(***************************************************************************)
\* the controller that joins, at the far end of the first connection
Joiner == remote[1]

\* the messages the controller may be handed
Messages ==
    {JoinResponseMessage(q, TRUE, p, SessionOf(InitialState(m)), "", 0) :
        q \in RequestIds, p \in 1..MaxIds, m \in {"QUICK", "TOURNAMENT"}}
    \cup {JoinResponseMessage(q, FALSE, NoPlayer, NoState, e, 0) :
        q \in RequestIds, e \in {"Room Full", ""}}
    \cup {StateUpdateMessage(SessionOf(InitialState(m)), 0) :
        m \in {"QUICK", "TOURNAMENT"}}

ProxyStep(r, op) == Commit([St EXCEPT !.remote[1] = r, !.lastOp = op])

JoinGame ==
    /\ Joiner.promise = "none"
    /\ \E requestId \in RequestIds, created \in BOOLEAN :
          ProxyStep(joinGame(Joiner, requestId, created), "joinGame")

PeerOpened ==
    /\ ~Joiner.peerOpen
    /\ \E created \in BOOLEAN : ProxyStep(peerOpened(Joiner, created), "peerOpen")

ConnOpened ==
    /\ Joiner.conn = "connecting"
    /\ ProxyStep(connOpened(Joiner), "connOpen")

Data ==
    /\ Joiner.conn = "open"
    /\ \E data \in Messages : ProxyStep(onData(Joiner, data), "data")

JoinTimeout ==
    /\ Joiner.timeoutTimer
    /\ ProxyStep(joinTimeout(Joiner), "joinTimeout")

PeerError ==
    /\ Joiner.peerErrorListener
    /\ \E type \in {"peer-unavailable", "network"} :
          ProxyStep(peerErrorListener(Joiner, type), "peerError")

JoinNext ==
    \/ JoinGame
    \/ PeerOpened
    \/ ConnOpened
    \/ Data
    \/ JoinTimeout
    \/ PeerError

\* a timer that is armed fires unless it is cleared
JoinSpec == Init /\ [][JoinNext]_vars /\ WF_vars(JoinTimeout)

ClaimCorrelated(data) ==
    data.type = "JOIN_RESPONSE" /\ data.requestId = Joiner.requestId

ClaimSettled(r) == r.promise \in {"resolved", "rejected"}

\* what each event does to a promise that is pending
ClaimJoinOutcomes ==
    Joiner.promise = "pending" =>
        /\ \A data \in Messages :
              LET r == onData(Joiner, data)
              IN  /\ r.promise = "resolved" <=> (ClaimCorrelated(data) /\ data.success)
                  /\ r.promise = "resolved" => r.playerId = data.playerId
                  /\ r.promise = "rejected" <=> (ClaimCorrelated(data) /\ ~data.success)
                  /\ (r.promise = "rejected" /\ data.error # "") => r.reason = data.error
        /\ peerErrorListener(Joiner, "peer-unavailable").promise = "rejected"
        /\ joinTimeout(Joiner).promise = "rejected"

\* a settled promise keeps its outcome, and only a message resolves one
ClaimSettlesOnce ==
    /\ ClaimSettled(Joiner) =>
          /\ Joiner'.promise = Joiner.promise
          /\ Joiner'.playerId = Joiner.playerId
          /\ Joiner'.reason = Joiner.reason
    /\ (Joiner.promise = "pending" /\ Joiner'.promise = "resolved") => lastOp' = "data"

\* C30: every joinGame call settles, once: a pending promise is resolved by a
\* successful JOIN_RESPONSE of its own requestId and by nothing else, rejected
\* with the host's reason by a refusal of its own requestId, rejected by
\* peer-unavailable and by the timeout, left pending by a JOIN_RESPONSE of
\* another requestId, and it does not stay pending.
C30_JoinSettles ==
    /\ []ClaimJoinOutcomes
    /\ [][ClaimSettlesOnce]_vars
    /\ (Joiner.promise = "pending") ~> ClaimSettled(Joiner)

\* a JOIN_RESPONSE of another requestId was handed over and the promise is
\* still pending
C30_UncorrelatedIgnored ==
    /\ lastOp = "data"
    /\ Joiner.promise = "pending"
    /\ Joiner.lastState = NoState

(***************************************************************************)
(* The host with a controller at the far end of every connection: what the *)
(* host sends waits on the wire, in order, until the controller's data     *)
(* handler takes it.                                                       *)
(***************************************************************************)
MaxInFlight == 3

\* messages waiting on the wires w
RECURSIVE InFlight(_, _)
InFlight(w, c) == IF c = 0 THEN 0 ELSE Len(w[c]) + InFlight(w, c - 1)

\* a controller whose connection is open and whose JOIN_REQUEST is out
JoiningProxy == connOpened(joinGame([NewProxy EXCEPT !.peerOpen = TRUE], 1, TRUE))

\* notify() is the same code in both modes; the rounds of a tournament are
\* the longer runs
ProxyInit ==
    \E m \in {"TOURNAMENT"} :
        Commit0([InitialState(m) EXCEPT
                    !.wire = [c \in Conns |-> <<>>],
                    !.remote = [c \in Conns |-> JoiningProxy]])

\* the next message of connection c reaches its controller
Deliver ==
    \E c \in Conns \ closedConns :
        /\ wire[c] # <<>>
        /\ Commit([St EXCEPT !.wire[c] = Tail(wire[c]),
                             !.remote[c] = onData(remote[c], Head(wire[c])),
                             !.lastOp = "deliver"])

\* the host's steps, with peers that keep to the phase and wires that hold
\* MaxInFlight messages between them
HostStep ==
    /\ Next
    /\ strays' = strays
    /\ InFlight(wire', MaxConns) <= MaxInFlight

ProxyNext ==
    \/ HostStep
    \/ Deliver

ProxySpec == ProxyInit /\ [][ProxyNext]_vars

\* a message that carries a state carries the host's state of the broadcast
\* it is numbered with
ClaimCarriesBroadcast ==
    \A c \in Conns : \A i \in 1..Len(wire[c]) :
        wire[c][i].state # NoState =>
            /\ wire[c][i].seq <= sent
            /\ wire[c][i].seq = sent => wire[c][i].state = SessionOf(St)

\* the states reach a controller in the order of the broadcasts
ClaimInOrder ==
    \A c \in Conns : \A i \in 1..Len(wire[c]) :
        /\ remote[c].heldSeq <= wire[c][i].seq
        /\ \A j \in 1..i : wire[c][j].seq <= wire[c][i].seq

\* a controller that holds a state, on an open connection with nothing in
\* flight, holds the host's state
ClaimConverged(cs) ==
    \A c \in cs \ closedConns :
        (wire[c] = <<>> /\ remote[c].lastState # NoState) =>
            remote[c].lastState = SessionOf(St)

\* C26: the state a Remote Proxy holds is one whole state the host broadcast,
\* the states it holds follow the order of the broadcasts, and on an open
\* connection with no message in flight it is the host's current state.
C26_ProxyFollowsHost ==
    /\ ClaimCarriesBroadcast
    /\ ClaimInOrder
    /\ ClaimConverged(Conns)

\* the cards of a hand that are legal on the pile of s
ClaimLegalCards(s, hand) ==
    {k \in 1..Len(hand) : isValidMove(hand[k], Top(s.discardPile), s.currentColor)}

\* priority classes: wild4, then draw2, then skip and reverse, then the rest
ClaimClass(card) ==
    CASE card.type = "wild4" -> 3
      [] card.type = "draw2" -> 2
      [] card.type \in {"skip", "reverse"} -> 1
      [] OTHER -> 0

ClaimIds(hand) == {hand[k].id : k \in 1..Len(hand)}

\* the non-black colors of which the hand holds most
ClaimMostHeld(hand) ==
    {c \in {COLORS[k] : k \in 1..Len(COLORS)} :
        \A d \in {COLORS[k] : k \in 1..Len(COLORS)} :
            ColorCount(hand, d) <= ColorCount(hand, c)}

\* the turn of bot b, taken in state St with shuffle r
ClaimBotTurn(b, r) ==
    LET i     == findIndex(players, b)
        hand  == PlayerAt(players, i).hand
        legal == ClaimLegalCards(St, hand)
        t     == executeBotTurn(St, b, r)
        after == PlayerAt(t.players, i).hand
        top   == Top(t.discardPile)
    IN  IF legal = {}
        THEN /\ top = Top(discardPile)
             /\ ClaimIds(hand) \subseteq ClaimIds(after)
        ELSE /\ \E k \in legal :
                  /\ top = hand[k]
                  /\ \A j \in legal : ClaimClass(hand[j]) <= ClaimClass(hand[k])
             /\ top.id \notin ClaimIds(after)
             /\ top.color = "black" => t.currentColor \in ClaimMostHeld(hand)

\* C31: a bot whose turn it is draws exactly when its hand has no legal card;
\* otherwise it plays a legal card of the highest priority class it holds, and
\* with a black card it names a non-black color of which its hand holds most.
C31_BotStrategy ==
    \A r \in SeedsNow :
        (/\ status = "PLAYING"
         /\ botTurnTimeout # NoPlayer
         /\ findIndex(players, botTurnTimeout) = currentPlayerIndex
         /\ Active(Holder)) =>
            ClaimBotTurn(botTurnTimeout, r)

\* a bot has just played a black card
C31_BotPlayedWild ==
    /\ lastOp = "botTurn"
    /\ discardPile # <<>>
    /\ Top(discardPile).color = "black"

\* the cards the played card makes its own player draw: those of a draw2 or
\* wild4 whose next active seat is the player's own, none otherwise
ClaimSelfDraw(card) ==
    IF ActiveCount > 1 THEN 0
    ELSE IF card.type = "draw2" THEN 2
    ELSE IF card.type = "wild4" THEN 4
    ELSE 0

\* C32: a play a bot makes on its own turn takes one card from its hand and
\* adds no penalty card (no forgot-Uno penalty), and a bot that plays from a
\* hand of two has called Uno.
C32_BotCallsUno ==
    \A r \in SeedsNow :
        (/\ status = "PLAYING"
         /\ botTurnTimeout # NoPlayer
         /\ findIndex(players, botTurnTimeout) = currentPlayerIndex
         /\ Active(Holder)
         /\ ClaimLegalCards(St, Holder.hand) # {}) =>
            LET t     == executeBotTurn(St, botTurnTimeout, r)
                after == PlayerAt(t.players, currentPlayerIndex)
                drawn == ClaimIds(after.hand) \ ClaimIds(Holder.hand)
            IN  /\ Len(after.hand) = Len(Holder.hand) - 1 + Cardinality(drawn)
                /\ Cardinality(drawn) <= ClaimSelfDraw(Top(t.discardPile))
                /\ Len(Holder.hand) = 2 => after.hasCalledUno

\* a bot has just played down to its last card
C32_BotDownToOne ==
    /\ lastOp = "botTurn"
    /\ \E i \in 1..Len(players) :
          /\ players[i].isBot
          /\ Len(players[i].hand) = 1
          /\ players[i].hasCalledUno
          /\ Top(discardPile).id \notin ClaimIds(players[i].hand)

(***************************************************************************)
(* The opening card, for every place the shuffle can give the black cards  *)
(* and every roster up to a full room.  In the code a full room of 15      *)
(* leaves 3 of 108 cards after the deal, fewer than the 8 black cards; here *)
(* a full room of OpenPlayers leaves 2 of 12, the number of black cards.   *)
(***************************************************************************)
OpenPlayers == 5

IsBlack(card) == card.color = "black"

\* the places of a deck the black cards can take
BlackPlaces ==
    {P \in SUBSET (1..DeckSize) :
        Cardinality(P) = Len(SelectSeq(NewDeck(1), IsBlack))}

\* the g-th deck, shuffled so that the black cards lie at the places P
Arranged(g, P) ==
    LET base    == NewDeck(g)
        blacks  == SelectSeq(base, IsBlack)
        colored == SelectSeq(base, LAMBDA c : ~IsBlack(c))
        Below(k) == Cardinality({j \in P : j < k})
    IN  [k \in 1..DeckSize |->
            IF k \in P THEN blacks[Below(k) + 1] ELSE colored[k - Below(k)]]

\* the lobby of the host and n - 1 bots
Lobby(n, m) ==
    [InitialState(m) EXCEPT
        !.players = [k \in 1..n |->
                        IF k = 1 THEN NewPlayer(HostId, TRUE, FALSE, FALSE)
                        ELSE NewPlayer(k - 1, FALSE, TRUE, FALSE)],
        !.nextId = n]

OpenInit ==
    \E n \in 2..OpenPlayers, m \in {"QUICK", "TOURNAMENT"} : Commit0(Lobby(n, m))

OpenStart ==
    /\ status = "LOBBY"
    /\ deckGen < MaxDeals
    /\ \E P \in BlackPlaces : Step(FALSE, startGameWith(St, Arranged(deckGen + 1, P)))

\* the host wins the round it holds the turn of with its last card
OpenWin ==
    /\ status = "PLAYING"
    /\ mode = "TOURNAMENT"
    /\ currentPlayerIndex = 0
    /\ Step(FALSE, [handleRoundWin([St EXCEPT !.players[1].hand = <<>>,
                                              !.discardPile = discardPile \o players[1].hand],
                                   0)
                    EXCEPT !.lastOp = "playCard"])

OpenNextRound ==
    /\ status = "ROUND_OVER"
    /\ deckGen < MaxDeals
    /\ \E P \in BlackPlaces : Step(FALSE, nextRoundWith(St, Arranged(deckGen + 1, P)))

OpenNext ==
    \/ OpenStart
    \/ OpenWin
    \/ OpenNextRound

OpenSpec == OpenInit /\ [][OpenNext]_vars

\* C33: startGame and nextRound end with a card on the discard pile that is
\* not black, for every shuffle and every roster from 2 players to a full
\* room.
C33_OpeningCard ==
    lastOp \in {"startGame", "nextRound"} =>
        /\ ~hung
        /\ status = "PLAYING"
        /\ discardPile # <<>>
        /\ Top(discardPile).color # "black"

(***************************************************************************)
(* The host under a fair timer: setInterval fires its callback as long as  *)
(* the interval is armed.                                                  *)
(***************************************************************************)
\* ENABLED <<TimerTick>>_vars, as the guards of TimerTick and Step state it
TimerTickEnabled == timerInterval /\ turns < MaxTurns /\ ~hung

\* WF_vars(TimerTick), with ENABLED written out
LiveSpec ==
    /\ Init
    /\ [][Next]_vars
    /\ ([]<>(~TimerTickEnabled) \/ []<><<TimerTick>>_vars)

\* the handlers that use up a turn
ClaimTurnOps == {"playCard", "drawCard", "timeout", "botTurn"}

\* in a round the interval is armed and the callback returns
ClaimTimerRuns ==
    (status = "PLAYING" /\ ~hung) =>
        /\ timerInterval
        /\ \A r \in SeedsNow :
              /\ ~timerTick(St, r).hung
              /\ turnTimer <= 1 =>
                    \/ timerTick(St, r).status # "PLAYING"
                    \/ /\ timerTick(St, r).lastOp = "timeout"
                       /\ timerTick(St, r).turns = turns + 1
                       /\ timerTick(St, r).turnTimer = TurnSeconds

\* from a round after k operations, with the host running, a turn is used up
\* or the round is left (or the horizon MaxTurns of the model is reached); a
\* host caught in a handler that never returns fires no timer callback, so no
\* tick reaches it
ClaimTurnEnds(k) ==
    (status = "PLAYING" /\ ~hung /\ turns = k) ~>
        \/ status # "PLAYING"
        \/ turns > k /\ lastOp \in ClaimTurnOps
        \/ turns = MaxTurns
        \/ hung

\* C34: while status is PLAYING and the timer ticks, every turn ends: a play,
\* a draw or a timeout uses it up, or the round is left, whatever the holder
\* of the turn does; the timer callback and its timeout handler return in
\* every state of a round.
C34_TurnEnds ==
    /\ []ClaimTimerRuns
    /\ \A k \in 0..(MaxTurns - 1) : ClaimTurnEnds(k)

\* the timer has ended the turn of a player who did not act
C34_TimedOut ==
    /\ lastOp = "timeout"
    /\ status = "PLAYING"
    /\ turnTimer = TurnSeconds

\* C35: while status is PLAYING, currentColor is red, yellow, green or blue,
\* after any plays, a wild or wild4 played without a wildColor included.
C35_ColorNeverBlack ==
    status = "PLAYING" => currentColor \in {COLORS[k] : k \in 1..Len(COLORS)}

\* the JOIN_REQUEST of player p on connection new is handled, then the close
\* of p's connection old
ClaimReconnectThenClose(p, old, new) ==
    LET s1 == handleJoinRequest(St, new, p)
        s2 == connectionClosed(s1, old)
    IN  /\ Len(ClaimEntry(players, p)) = 1
        /\ ClaimEntry(s1.players, p) = ClaimEntry(players, p)
        /\ ClaimEntry(s2.players, p) = ClaimEntry(players, p)
        /\ ConnGet(s2.connections, p) = new

\* the close of p's connection old is handled during a round, then the
\* JOIN_REQUEST of p on connection new
ClaimCloseThenReconnect(p, old, new) ==
    LET s1 == connectionClosed(St, old)
        s2 == handleJoinRequest(s1, new, p)
    IN  ~s1.hung =>
           /\ s2.lastResponse.success
           /\ s2.lastResponse.playerId = p
           /\ Len(s2.players) = Len(players)
           /\ Len(ClaimEntry(s2.players, p)) = 1
           /\ ClaimEntry(s2.players, p)[1].isEliminated
           /\ ClaimEntry(s2.players, p)[1].hand = <<>>
           /\ ConnGet(s2.connections, p) = new

\* C36: when the JOIN_REQUEST a player sends with its existingId is handled
\* before the close of its old connection, that close neither eliminates nor
\* removes the player; when the close is handled first during a round, the
\* reconnect re-attaches the same player id and the player stays eliminated
\* with an empty hand.
C36_ReconnectRace ==
    /\ \A c \in joinedConns \ closedConns :
          ConnOwner(connections, c) = NoPlayer =>
              connectionClosed(St, c).players = players
    /\ \A old \in joinedConns \ closedConns, new \in Conns \ closedConns :
          LET p == ConnOwner(connections, old)
          IN  (new # old /\ p # NoPlayer /\ findIndex(players, p) >= 0) =>
                 /\ ClaimReconnectThenClose(p, old, new)
                 /\ status = "PLAYING" => ClaimCloseThenReconnect(p, old, new)

\* a player has reconnected while its old connection is still open
C36_Superseded ==
    /\ lastOp = "rejoin"
    /\ \E c \in joinedConns \ closedConns : ConnOwner(connections, c) = NoPlayer

\* C37: every reachable state with status PLAYING has at least two players
\* who are neither eliminated nor spectators.
C37_TwoActiveWhilePlaying ==
    status = "PLAYING" => ActiveCount >= 2

\* t is a result in which no card moved, the turn did not move and the turn
\* timer was not restarted
ClaimOutOfRound(t) ==
    /\ [i \in 1..Len(t.players) |-> t.players[i].hand]
          = [i \in 1..Len(players) |-> players[i].hand]
    /\ t.deck = deck
    /\ t.discardPile = discardPile
    /\ t.currentPlayerIndex = currentPlayerIndex
    /\ t.turnTimer = turnTimer
    /\ t.timerInterval = timerInterval

\* C38: outside PLAYING a drawCard or playCard from the player at
\* currentPlayerIndex moves no card, does not move currentPlayerIndex and does
\* not restart the turn timer.
C38_OnlyWhilePlaying ==
    (status # "PLAYING" /\ ~hung /\ currentPlayerIndex < Len(players)) =>
        LET p == PlayerAt(players, currentPlayerIndex)
        IN  /\ \A r \in SeedsNow : ClaimOutOfRound(drawCard(St, p.id, r))
            /\ \A j \in 1..Len(p.hand), w \in {NoColor} \cup {COLORS[k] : k \in 1..Len(COLORS)}, r \in SeedsNow :
                  ClaimOutOfRound(playCard(St, p.id, p.hand[j].id, w, r))

\* the players of ps eliminated by the step from the roster before
ClaimNewlyEliminated(before, ps) ==
    {i \in 1..Len(ps) : ps[i].isEliminated /\ ~before[i].isEliminated}

\* t is the result of a play by the player at seat i that emptied that
\* player's hand and so resolved the round
ClaimResolved(t, i) ==
    /\ Cardinality(ClaimNewlyEliminated(players, t.players)) <= 1
    /\ (i + 1) \notin ClaimNewlyEliminated(players, t.players)
    /\ t.status = "GAME_OVER" => t.winner = PlayerAt(players, i).id

\* C39: a round resolution eliminates at most one player and never the round
\* winner; when it ends the game, winner is the player whose hand just became
\* empty.
C39_RoundResolution ==
    (status = "PLAYING" /\ ~hung /\ currentPlayerIndex < Len(players)) =>
        LET p == PlayerAt(players, currentPlayerIndex)
        IN  \A j \in 1..Len(p.hand), w \in {NoColor} \cup {COLORS[k] : k \in 1..Len(COLORS)}, r \in SeedsNow :
               LET t == playCard(St, p.id, p.hand[j].id, w, r)
               IN  (~t.hung /\ t.lastOp = "playCard"
                      /\ PlayerAt(t.players, currentPlayerIndex).hand = <<>>) =>
                         /\ t.status \in {"ROUND_OVER", "GAME_OVER"}
                         /\ ClaimResolved(t, currentPlayerIndex)

\* a play has just emptied a hand in TOURNAMENT mode and ended the game with
\* one player eliminated
C39_RoundEndedGame ==
    /\ lastOp = "playCard"
    /\ mode = "TOURNAMENT"
    /\ status = "GAME_OVER"
    /\ \E i \in 1..Len(players) :
          players[i].id = winner /\ players[i].hand = <<>> /\ ~players[i].isEliminated
    /\ \E i \in 1..Len(players) : players[i].isEliminated /\ players[i].score > 0

====
